---------------------------- MODULE Spec2Model ----------------------------
(***************************************************************************)
(* SkillChain AI engine (packages/ai-engine): the recommendation scorer,   *)
(* the three model artifacts with their save/load/predict operations, the  *)
(* TrainingService, the request handlers of main.py and the feature        *)
(* builders of the scheduling and performance models.                      *)
(*                                                                         *)
(* Numbers that are floats in the source are exact rationals here          *)
(* ([n |-> numerator, d |-> denominator], d > 0).                          *)
(***************************************************************************)
EXTENDS Integers, Sequences, FiniteSets, TLC

VARIABLES
    user_profiles,    \* RecommendationModel.user_profiles : user -> (course -> score)
    course_profiles,  \* RecommendationModel.course_profiles : course -> [total, completed]
    reco_trained,     \* RecommendationModel.is_trained
    score,            \* value computed by the _calculate_course_score call in progress
    reco_call,        \* the recommend or collaborative-score call in progress
    configured,       \* DataService.supabase is not None
    models,           \* TrainingService.models : model type -> artifact in memory
    disk,             \* saved_models/ : model type -> persisted artifact file(s)
    metrics_table,    \* table ai_model_metrics : model type -> run whose metrics it holds
    background,       \* BackgroundTasks scheduled and not yet run
    runs,             \* number of training calls made so far (the id of the last one)
    all_runs,         \* number of train-all calls among them
    last,             \* the last call: its arguments, what it did, its response
    fx                \* the feature-function call in progress: arguments and result

recoVars == <<user_profiles, course_profiles, reco_trained, score, reco_call>>

svcVars == <<configured, models, disk, metrics_table, background, runs,
             all_runs, last>>

vars == <<user_profiles, course_profiles, reco_trained, score, reco_call,
          configured, models, disk, metrics_table, background, runs,
          all_runs, last, fx>>

featVars == <<fx>>

-----------------------------------------------------------------------------
(* Bounds of the model                                                     *)

MaxRecs == 2          \* longest record list handed to RecommendationModel.train
MaxRuns == 2          \* training calls in one behaviour
MaxAllRuns == 1       \* train-all calls among them
MaxHist == 1          \* longest session history of a user
MaxData == 3          \* longest record list handed to a feature builder
MaxHours == 7         \* distinct hours in a generated session history

Users == {"u1", "u2", "u3"}
Courses == {"c1", "c2"}
NoneId == "None"      \* a missing (None) identifier in a record

-----------------------------------------------------------------------------
(* Exact rational arithmetic                                               *)

RECURSIVE Gcd(_, _)
Gcd(a, b) == IF b = 0 THEN a ELSE Gcd(b, a % b)

Abs(x) == IF x < 0 THEN -x ELSE x

Rat(n, d) == [n |-> n, d |-> d]

\* the same rational in lowest terms (two equal floats are one value)
Norm(r) == LET g == Gcd(Abs(r.n), r.d) IN [n |-> r.n \div g, d |-> r.d \div g]
Zero == Rat(0, 1)
One == Rat(1, 1)
Half == Rat(1, 2)
RAdd(a, b) == Rat(a.n * b.d + b.n * a.d, a.d * b.d)
RMul(a, b) == Rat(a.n * b.n, a.d * b.d)
RLeq(a, b) == a.n * b.d <= b.n * a.d
RLess(a, b) == a.n * b.d < b.n * a.d
RMin(a, b) == IF RLeq(a, b) THEN a ELSE b
RMax(a, b) == IF RLeq(a, b) THEN b ELSE a

RECURSIVE RSum(_)
RSum(s) == IF s = <<>> THEN Zero ELSE RAdd(Head(s), RSum(Tail(s)))

\* np.mean of a non-empty list
RMean(s) == RMul(RSum(s), Rat(1, Len(s)))

\* a set listed as a sequence (iteration over a dict or a set)
RECURSIVE SetToSeq(_)
SetToSeq(S) ==
    IF S = {} THEN <<>>
    ELSE LET x == CHOOSE y \in S : TRUE IN <<x>> \o SetToSeq(S \ {x})

\* dict.get(key, default) on a function used as a dict
Get(f, k, default) == IF k \in DOMAIN f THEN f[k] ELSE default

\* f with f[k] set to v, k added to the domain when absent
Put(f, k, v) == [x \in DOMAIN f \cup {k} |-> IF x = k THEN v ELSE f[x]]

EmptyDict == [x \in {} |-> 0]

-----------------------------------------------------------------------------
(* Model types, training data, artifacts                                   *)

ModelTypes == {"scheduling", "recommendation", "performance"}

\* the order in which both train-all loops visit the model types
TypeOrder == <<"scheduling", "recommendation", "performance">>

MinSamples == 50        \* minimum number of fetched records in train_model
MockSize == 500         \* records generated by _get_mock_data
MinAggUsers == 10       \* PerformanceModel.train needs this many feature rows
MinUserSessions == 3    \* sessions a user needs to contribute a feature row

\* A list of training records as far as training depends on it: its length n,
\* whether it holds a record on which the feature builder of the model type
\* raises (scheduling: method_used outside METHODS or a null numeric field;
\* performance: a null numeric field of an aggregated user), and whether at
\* least MinAggUsers users have MinUserSessions sessions each.
DataOf(mt, sizes) ==
    {d \in [n : sizes, malformed : BOOLEAN, agg : BOOLEAN] :
        /\ d.malformed => (mt # "recommendation" /\ d.n > 0)
        /\ d.agg => (mt = "performance" /\ d.n >= MinAggUsers * MinUserSessions)}

\* _get_mock_data: 500 well-formed records of 20 users with 25 sessions each
MockData(mt) ==
    [n |-> MockSize, malformed |-> FALSE, agg |-> (mt = "performance")]

\* lengths of the record lists the datastore returns to fetch_training_data
FetchSizes == {MinSamples - 1, MinSamples}

\* what the datastore does on a fetch: raises, or returns a record list
FetchInputs(mt) ==
    {[raised |-> TRUE, data |-> MockData(mt)]}
    \cup {[raised |-> FALSE, data |-> d] : d \in DataOf(mt, FetchSizes)}

\* DataService.fetch_training_data
FetchTrainingData(mt, isConfigured, input) ==
    IF ~isConfigured THEN MockData(mt)
    ELSE IF input.raised THEN MockData(mt)
    ELSE input.data

\* the condition of the data-access collaborator during a fetch
Upstream(isConfigured, input) ==
    IF ~isConfigured THEN "unconfigured"
    ELSE IF input.raised THEN "raised" ELSE "ok"

\* An artifact in memory: est is the training call that fitted its
\* estimator(s) (for recommendation: built its lookup tables), scaler the call
\* that fitted its scaler, 0 when never fitted (None / unfitted / empty).
Fresh == [est |-> 0, scaler |-> 0, trained |-> FALSE]

\* the persisted file(s) of one model type: present tells whether MODEL_PATH
\* exists, est and scaler which call fitted what was dumped (scheduling: 0
\* for a scaler file that does not exist), encoder which call's save wrote
\* the label-encoder file (scheduling only, 0 when there is none)
NoFile ==
    [present |-> FALSE, est |-> 0, scaler |-> 0, encoder |-> 0,
     trained |-> FALSE]

\* a metrics report: the four numbers train returns.  A number that comes
\* out of the evaluation of a fitted estimator is not computed here.
Evaluated == [n |-> 0, d |-> 0]
NoMetrics == [x \in {} |-> Zero]
ZeroReport ==
    [accuracy |-> Zero, precision |-> Zero, recall |-> Zero, f1Score |-> Zero]
EvaluatedReport ==
    [accuracy |-> Evaluated, precision |-> Evaluated, recall |-> Evaluated,
     f1Score |-> Evaluated]

\* the three train methods without the test len(X) < 10 of PerformanceModel
ModelTrainNoMinimum(mt, art, data, r) ==
    LET raised ==
            CASE mt = "scheduling" -> data.malformed \/ data.n < 2
              [] mt = "recommendation" -> FALSE
              [] mt = "performance" -> data.malformed
    IN [raised |-> raised,
        fits |-> ~raised,
        metrics |-> IF raised THEN NoMetrics ELSE EvaluatedReport,
        art |-> IF raised THEN art
                ELSE [est |-> r,
                      scaler |-> IF mt = "recommendation" THEN art.scaler ELSE r,
                      trained |-> TRUE]]

\* SchedulingModel.train, RecommendationModel.train, PerformanceModel.train
\* as call number r on artifact art
ModelTrain(mt, art, data, r) ==
    LET raised ==
            \* train_test_split(test_size=0.2) raises on fewer than 2 samples
            CASE mt = "scheduling" -> data.malformed \/ data.n < 2
              [] mt = "recommendation" -> FALSE
              [] mt = "performance" -> data.malformed
        fits == ~raised /\ (mt = "performance" => data.agg)
    IN [raised |-> raised,
        fits |-> fits,
        metrics |-> IF raised THEN NoMetrics
                    ELSE IF mt = "performance" /\ ~data.agg THEN ZeroReport
                    ELSE EvaluatedReport,
        art |-> IF ~fits THEN art
                ELSE [est |-> r,
                      scaler |-> IF mt = "recommendation" THEN art.scaler ELSE r,
                      trained |-> TRUE]]

\* save(): what joblib.dump writes for artifact art
SaveFile(mt, art) ==
    [present |-> TRUE, est |-> art.est, scaler |-> art.scaler,
     encoder |-> IF mt = "scheduling" THEN art.est ELSE 0,
     trained |-> art.trained]

\* the number of joblib.dump calls in SchedulingModel.save
SchedulingDumps == 3

\* SchedulingModel.save as part of call number r when the first `dumps` of
\* its joblib.dump calls complete and the next one raises: the model file,
\* the scaler file and the encoder file are written one after the other,
\* each in place
SchedulingSave(file, art, dumps, r) ==
    [present |-> file.present \/ dumps >= 1,
     est |-> IF dumps >= 1 THEN art.est ELSE file.est,
     scaler |-> IF dumps >= 2 THEN art.scaler ELSE file.scaler,
     encoder |-> IF dumps >= 3 THEN r ELSE file.encoder,
     trained |-> IF dumps >= 1 THEN art.trained ELSE file.trained]

\* SchedulingModel.load / RecommendationModel.load: a new instance, filled
\* from the file when it exists and can be read.  SchedulingModel.load reads
\* three files in turn and marks the instance trained after the third; a
\* missing scaler or encoder file makes it stop with what it has read.
ClassLoad(mt, file, readable) ==
    IF file.present /\ readable
    THEN IF mt = "scheduling" /\ file.scaler = 0
         THEN [est |-> file.est, scaler |-> 0, trained |-> FALSE]
         ELSE IF mt = "scheduling" /\ file.encoder = 0
         THEN [est |-> file.est, scaler |-> file.scaler, trained |-> FALSE]
         ELSE [est |-> file.est, scaler |-> file.scaler,
               trained |-> IF mt = "recommendation" THEN file.trained
                           ELSE TRUE]
    ELSE Fresh

\* PerformanceModel._load_model on instance art: whether it loaded, and the
\* instance afterwards
LoadModel(art, file, readable) ==
    IF file.present /\ readable
    THEN [ok |-> TRUE,
          art |-> [est |-> file.est, scaler |-> file.scaler, trained |-> TRUE]]
    ELSE [ok |-> FALSE, art |-> art]

\* bool(x) of an instance whose class defines neither __bool__ nor __len__
Truthy(instance) == TRUE

-----------------------------------------------------------------------------
(* Predictions                                                             *)

NoBody == [empty |-> TRUE]
NoPred == [source |-> "none", run |-> 0, body |-> NoBody]

DefaultHours == <<9, 10, 11, 14, 15, 16>>

\* SchedulingModel._default_prediction
SchedulingDefault ==
    [recommended_method |-> "pomodoro",
     confidence |-> Half,
     optimal_hours |-> DefaultHours,
     reasoning |-> "Starting with Pomodoro technique is recommended for new users."]

\* the response predict_schedule builds for an empty history
ScheduleHandlerDefault ==
    [recommended_method |-> "pomodoro",
     confidence |-> Half,
     optimal_hours |-> DefaultHours,
     reasoning |-> "Default recommendation for new users."]

\* PerformanceModel._default_prediction
PerformanceDefault ==
    [predicted_completion_rate |-> Half,
     predicted_quiz_score |-> Rat(65, 1),
     risk_level |-> "medium",
     recommendations |-> <<"Set a consistent study schedule",
                           "Start with shorter study sessions",
                           "Review material before quizzes",
                           "Minimize distractions during study">>]

\* the response predict_performance builds for an empty history
PerformanceHandlerDefault ==
    [predicted_completion_rate |-> Half,
     predicted_quiz_score |-> Rat(65, 1),
     risk_level |-> "medium",
     recommendations |-> <<"Set a consistent study schedule",
                           "Start with shorter study sessions",
                           "Review material before quizzes">>]

\* a prediction computed by the estimator(s) fitted in training call r
Computed(r) == [source |-> "estimator", run |-> r, body |-> NoBody]

\* SchedulingModel.predict on instance art with a history of hist sessions
SchedulingPredict(art, file, readable, hist) ==
    IF ~art.trained /\ ~Truthy(ClassLoad("scheduling", file, readable))
    THEN [raised |-> FALSE, art |-> art,
          pred |-> [source |-> "model_default", run |-> 0,
                    body |-> SchedulingDefault]]
    ELSE IF art.scaler = 0 \/ art.est = 0
    THEN [raised |-> TRUE, art |-> art, pred |-> NoPred]
    ELSE [raised |-> FALSE, art |-> art, pred |-> Computed(art.est)]

PerformancePredictNoDefault(art, file, readable, hist) ==
    LET loaded == IF art.trained THEN [ok |-> TRUE, art |-> art]
                  ELSE LoadModel(art, file, readable)
        self == loaded.art
    IN IF self.scaler = 0 \/ self.est = 0
       THEN [raised |-> TRUE, art |-> self, pred |-> NoPred]
       ELSE [raised |-> FALSE, art |-> self, pred |-> Computed(self.est)]

\* PerformanceModel.predict on instance art with a history of hist sessions
PerformancePredict(art, file, readable, hist) ==
    LET loaded == IF art.trained THEN [ok |-> TRUE, art |-> art]
                  ELSE LoadModel(art, file, readable)
        self == loaded.art
        default == [source |-> "model_default", run |-> 0,
                    body |-> PerformanceDefault]
    IN IF ~loaded.ok THEN [raised |-> FALSE, art |-> self, pred |-> default]
       ELSE IF hist = 0 THEN [raised |-> FALSE, art |-> self, pred |-> default]
       ELSE IF self.scaler = 0 \/ self.est = 0
       THEN [raised |-> TRUE, art |-> self, pred |-> NoPred]
       ELSE [raised |-> FALSE, art |-> self, pred |-> Computed(self.est)]

\* RecommendationModel.recommend on instance art for a non-empty course list:
\* a ranking computed from the lookup tables of art
RecommendList(art) ==
    [source |-> "tables", run |-> art.est, body |-> NoBody]

-----------------------------------------------------------------------------
(* TrainingService and the handlers of main.py                             *)

\* TrainingService.train as call number r; ms and fs are the artifacts in
\* memory and on disk, saveOk tells whether model.save() succeeds
TrainingServiceTrain(mt, ms, fs, data, saveOk, r) ==
    IF mt \notin DOMAIN ms
    THEN [raised |-> TRUE, fits |-> FALSE, metrics |-> NoMetrics,
          models |-> ms, disk |-> fs]
    ELSE LET t == ModelTrain(mt, ms[mt], data, r)
         IN IF t.raised
            THEN [raised |-> TRUE, fits |-> FALSE, metrics |-> NoMetrics,
                  models |-> ms, disk |-> fs]
            ELSE [raised |-> FALSE, fits |-> t.fits, metrics |-> t.metrics,
                  models |-> [ms EXCEPT ![mt] = t.art],
                  disk |-> IF saveOk
                           THEN [fs EXCEPT ![mt] = SaveFile(mt, t.art)]
                           ELSE fs]

InsufficientDataOffByOne(n) == n <= MinSamples

\* len(training_data) < 50
InsufficientData(n) == n < MinSamples

\* `except Exception as e: raise HTTPException(status_code=500, ...)` around a
\* handler body: exc is the status of a raised HTTPException, 0 for any
\* other exception.  HTTPException is an Exception, so it is caught as well.
HandlerCatch(exc) == 500

NoResp ==
    [status |-> 0, success |-> FALSE, samples |-> -1, fetched |-> -1,
     upstream |-> "none", trainer |-> FALSE, fitted |-> FALSE]

\* train_model as call number r.  resp holds the response (status, success,
\* samples) and what the call did: fetched is the number of records fetched
\* (-1: no fetch), upstream the collaborator's condition, trainer whether
\* TrainingService.train was called, fitted whether an estimator was fitted
\* (for recommendation: the lookup tables were built).
TrainModel(mt, isConfigured, ms, fs, bg, input, saveOk, r) ==
    IF mt \notin ModelTypes
    THEN [models |-> ms, disk |-> fs, background |-> bg,
          resp |-> [NoResp EXCEPT !.status = HandlerCatch(400)]]
    ELSE LET data == FetchTrainingData(mt, isConfigured, input)
             up == Upstream(isConfigured, input)
         IN IF InsufficientData(data.n)
            THEN [models |-> ms, disk |-> fs, background |-> bg,
                  resp |-> [NoResp EXCEPT !.status = 200, !.samples = data.n,
                                          !.fetched = data.n, !.upstream = up]]
            ELSE LET t == TrainingServiceTrain(mt, ms, fs, data, saveOk, r)
                 IN IF t.raised
                    THEN [models |-> t.models, disk |-> t.disk, background |-> bg,
                          resp |-> [NoResp EXCEPT !.status = HandlerCatch(0),
                                                  !.fetched = data.n,
                                                  !.upstream = up,
                                                  !.trainer = TRUE]]
                    ELSE [models |-> t.models, disk |-> t.disk,
                          background |-> bg \cup {[mt |-> mt, run |-> r]},
                          resp |-> [status |-> 200, success |-> TRUE,
                                    samples |-> data.n, fetched |-> data.n,
                                    upstream |-> up, trainer |-> TRUE,
                                    fitted |-> t.fits]]

\* what the data of one model type alone leads to in train_model
OwnOutcome(mt, isConfigured, input) ==
    LET data == FetchTrainingData(mt, isConfigured, input)
    IN IF InsufficientData(data.n) THEN "insufficient"
       ELSE IF ModelTrain(mt, Fresh, data, 0).raised THEN "error"
       ELSE "trained"

RECURSIVE TrainAllLoopAborting(_, _, _, _, _, _)
TrainAllLoopAborting(i, isConfigured, st, inputs, saves, r) ==
    IF i > Len(TypeOrder) THEN st
    ELSE LET mt == TypeOrder[i]
             c == TrainModel(mt, isConfigured, st.models, st.disk, st.background,
                             inputs[mt], saves[mt], r)
             entry == [success |-> c.resp.status = 200 /\ c.resp.success,
                       error |-> c.resp.status # 200,
                       samples |-> c.resp.samples,
                       fitted |-> c.resp.fitted,
                       own |-> OwnOutcome(mt, isConfigured, inputs[mt])]
             next == [models |-> c.models, disk |-> c.disk,
                      background |-> c.background,
                      results |-> Put(st.results, mt, entry)]
         IN IF c.resp.status # 200 THEN next
            ELSE TrainAllLoopAborting(i + 1, isConfigured, next, inputs, saves, r)

\* the loop of train_all_models from position i on: results[model_type] is
\* result.dict(), or {"success": False, "error": ...} when train_model raised
RECURSIVE TrainAllLoop(_, _, _, _, _, _)
TrainAllLoop(i, isConfigured, st, inputs, saves, r) ==
    IF i > Len(TypeOrder) THEN st
    ELSE LET mt == TypeOrder[i]
             c == TrainModel(mt, isConfigured, st.models, st.disk, st.background,
                             inputs[mt], saves[mt], r)
             entry == [success |-> c.resp.status = 200 /\ c.resp.success,
                       error |-> c.resp.status # 200,
                       samples |-> c.resp.samples,
                       fitted |-> c.resp.fitted,
                       own |-> OwnOutcome(mt, isConfigured, inputs[mt])]
         IN TrainAllLoop(i + 1, isConfigured,
                         [models |-> c.models, disk |-> c.disk,
                          background |-> c.background,
                          results |-> Put(st.results, mt, entry)],
                         inputs, saves, r)

\* DataService.save_model_metrics run as a background task
SaveModelMetrics(isConfigured, table, task, dbOk) ==
    IF ~isConfigured THEN table
    ELSE IF dbOk THEN [table EXCEPT ![task.mt] = task.run]
    ELSE table

\* DataService.get_model_metrics: the row of mt, {} when there is none
GetMetrics(isConfigured, table, mt, dbOk) ==
    IF isConfigured /\ dbOk /\ table[mt] # 0
    THEN [x \in {mt} |-> table[mt]] ELSE EmptyDict

\* DataService.get_all_model_metrics: every row, [] when unreachable
GetAllMetrics(isConfigured, table, dbOk) ==
    IF isConfigured /\ dbOk
    THEN [x \in {m \in ModelTypes : table[m] # 0} |-> table[x]] ELSE EmptyDict

Blank ==
    [op |-> "none", mt |-> "none", run |-> 0, status |-> 0, raised |-> FALSE,
     success |-> FALSE, samples |-> -1, fetched |-> -1, upstream |-> "none",
     trainer |-> FALSE, fitted |-> FALSE, hist |-> -1, inst |-> Fresh,
     loadable |-> FALSE, pred |-> NoPred, results |-> EmptyDict, rows |-> EmptyDict,
     agg |-> FALSE, malformed |-> FALSE, metrics |-> NoMetrics]

WithResp(rec, resp) ==
    [rec EXCEPT !.status = resp.status, !.success = resp.success,
                !.samples = resp.samples, !.fetched = resp.fetched,
                !.upstream = resp.upstream, !.trainer = resp.trainer,
                !.fitted = resp.fitted]

SvcInit ==
    /\ configured \in BOOLEAN
    /\ models = [mt \in ModelTypes |-> Fresh]
    /\ disk = [mt \in ModelTypes |-> NoFile]
    /\ metrics_table = [mt \in ModelTypes |-> 0]
    /\ background = {}
    /\ runs = 0
    /\ all_runs = 0
    /\ last = Blank

\* POST /train
TrainRequest(mt, input, saveOk) ==
    /\ runs < MaxRuns
    /\ LET r == runs + 1
           c == TrainModel(mt, configured, models, disk, background,
                           input, saveOk, r)
       IN /\ models' = c.models
          /\ disk' = c.disk
          /\ background' = c.background
          /\ runs' = r
          /\ last' = WithResp([Blank EXCEPT !.op = "train", !.mt = mt,
                                            !.run = r], c.resp)
    /\ UNCHANGED <<all_runs, configured, metrics_table, recoVars, fx>>

\* POST /train/all
TrainAllRequest(inputs, saves) ==
    /\ all_runs < MaxAllRuns
    /\ all_runs' = all_runs + 1
    /\ runs < MaxRuns
    /\ LET r == runs + 1
           st == TrainAllLoop(1, configured,
                              [models |-> models, disk |-> disk,
                               background |-> background,
                               results |-> EmptyDict],
                              inputs, saves, r)
       IN /\ models' = st.models
          /\ disk' = st.disk
          /\ background' = st.background
          /\ runs' = r
          /\ last' = [Blank EXCEPT !.op = "train_all", !.run = r,
                                   !.status = 200, !.results = st.results]
    /\ UNCHANGED <<configured, metrics_table, recoVars, fx>>

\* a scheduled save_model_metrics task runs after its response was sent
RunBackground(task, dbOk) ==
    /\ task \in background
    /\ background' = background \ {task}
    /\ metrics_table' = SaveModelMetrics(configured, metrics_table, task, dbOk)
    /\ UNCHANGED <<configured, models, disk, runs, all_runs, last, recoVars, fx>>

\* GET /models/{model_type}/metrics
GetModelMetrics(mt, dbOk) ==
    /\ last' = IF mt \notin ModelTypes
               THEN [Blank EXCEPT !.op = "model_metrics", !.mt = mt,
                                  !.status = HandlerCatch(400)]
               ELSE [Blank EXCEPT !.op = "model_metrics", !.mt = mt,
                                  !.status = 200,
                                  !.rows = GetMetrics(configured, metrics_table,
                                                      mt, dbOk)]
    /\ UNCHANGED <<configured, models, disk, metrics_table, background, runs,
                   all_runs, recoVars, fx>>

\* GET /models/status
GetModelsStatus(dbOk) ==
    /\ last' = [Blank EXCEPT !.op = "models_status", !.status = 200,
                             !.rows = GetAllMetrics(configured, metrics_table,
                                                    dbOk)]
    /\ UNCHANGED <<configured, models, disk, metrics_table, background, runs,
                   all_runs, recoVars, fx>>

\* predict_schedule without its answer for an empty history: the history goes
\* to the model whatever its length
PredictScheduleAlwaysModel(hist, readable) ==
    /\ hist > 0 => configured
    /\ LET model == ClassLoad("scheduling", disk["scheduling"], readable)
           p == SchedulingPredict(model, disk["scheduling"], readable, hist)
       IN last' = [Blank EXCEPT !.op = "predict_schedule", !.hist = hist,
                                !.inst = model,
                                !.loadable = disk["scheduling"].present
                                             /\ readable,
                                !.raised = p.raised,
                                !.status = IF p.raised THEN HandlerCatch(0)
                                           ELSE 200,
                                !.pred = p.pred]
    /\ UNCHANGED <<configured, models, disk, metrics_table, background, runs,
                   all_runs, recoVars, fx>>

\* POST /predict/schedule for a user with hist sessions; get_user_study_history
\* returns [] when the datastore is unconfigured.  The hour and weekday
\* arguments are read by the estimator path only.
PredictSchedule(hist, readable) ==
    /\ hist > 0 => configured
    /\ IF hist = 0
       THEN last' = [Blank EXCEPT !.op = "predict_schedule", !.hist = hist,
                                  !.status = 200,
                                  !.pred = [source |-> "handler_default",
                                            run |-> 0,
                                            body |-> ScheduleHandlerDefault]]
       ELSE LET model == ClassLoad("scheduling", disk["scheduling"], readable)
                p == SchedulingPredict(model, disk["scheduling"], readable, hist)
            IN last' = [Blank EXCEPT !.op = "predict_schedule", !.hist = hist,
                                     !.inst = model,
                                     !.loadable = disk["scheduling"].present
                                                  /\ readable,
                                     !.raised = p.raised,
                                     !.status = IF p.raised THEN HandlerCatch(0)
                                                ELSE 200,
                                     !.pred = p.pred]
    /\ UNCHANGED <<configured, models, disk, metrics_table, background, runs,
                   all_runs, recoVars, fx>>

\* POST /predict/courses with ncourses published courses; get_available_courses
\* returns [] when the datastore is unconfigured
PredictCourses(ncourses, readable) ==
    /\ ncourses > 0 => configured
    /\ IF ncourses = 0
       THEN last' = [Blank EXCEPT !.op = "predict_courses", !.status = 200,
                                  !.pred = [source |-> "handler_default",
                                            run |-> 0,
                                            body |-> [items |-> <<>>]]]
       ELSE LET model == ClassLoad("recommendation", disk["recommendation"],
                                   readable)
            IN last' = [Blank EXCEPT !.op = "predict_courses", !.status = 200,
                                     !.inst = model,
                                     !.pred = RecommendList(model)]
    /\ UNCHANGED <<configured, models, disk, metrics_table, background, runs,
                   all_runs, recoVars, fx>>

\* POST /predict/performance for a user with hist sessions
PredictPerformance(hist, readable) ==
    /\ hist > 0 => configured
    /\ IF hist = 0
       THEN last' = [Blank EXCEPT !.op = "predict_performance", !.hist = hist,
                                  !.status = 200,
                                  !.pred = [source |-> "handler_default",
                                            run |-> 0,
                                            body |-> PerformanceHandlerDefault]]
       ELSE LET model == LoadModel(Fresh, disk["performance"], readable).art
                p == PerformancePredict(model, disk["performance"], readable,
                                        hist)
            IN last' = [Blank EXCEPT !.op = "predict_performance",
                                     !.hist = hist, !.inst = model,
                                     !.loadable = disk["performance"].present
                                                  /\ readable,
                                     !.raised = p.raised,
                                     !.status = IF p.raised THEN HandlerCatch(0)
                                                ELSE 200,
                                     !.pred = p.pred]
    /\ UNCHANGED <<configured, models, disk, metrics_table, background, runs,
                   all_runs, recoVars, fx>>

\* the handled call returns to its caller; calls are handled one at a time
Respond ==
    /\ last # Blank
    /\ last' = Blank
    /\ UNCHANGED <<configured, models, disk, metrics_table, background, runs,
                   all_runs, recoVars, fx>>

\* no call is being handled
Idle == last = Blank

Next ==
    \/ Idle /\ runs < MaxRuns
       /\ \E mt \in ModelTypes \cup {"unknown"}, saveOk \in BOOLEAN :
              \E input \in FetchInputs(mt) : TrainRequest(mt, input, saveOk)
    \/ Idle /\ runs < MaxRuns /\ all_runs < MaxAllRuns
       /\ \E i1 \in FetchInputs("scheduling"),
             i2 \in FetchInputs("recommendation"),
             i3 \in FetchInputs("performance"),
             saves \in [ModelTypes -> BOOLEAN] :
              TrainAllRequest([mt \in ModelTypes |->
                                  CASE mt = "scheduling" -> i1
                                    [] mt = "recommendation" -> i2
                                    [] mt = "performance" -> i3], saves)
    \/ Idle /\ \E task \in background, dbOk \in BOOLEAN :
                   RunBackground(task, dbOk)
    \/ Idle /\ \E mt \in ModelTypes \cup {"unknown"}, dbOk \in BOOLEAN :
                   GetModelMetrics(mt, dbOk)
    \/ Idle /\ \E dbOk \in BOOLEAN : GetModelsStatus(dbOk)
    \/ Idle /\ \E hist \in 0..MaxHist, readable \in BOOLEAN :
                   PredictSchedule(hist, readable)
    \/ Idle /\ \E ncourses \in 0..1, readable \in BOOLEAN :
                   PredictCourses(ncourses, readable)
    \/ Idle /\ \E hist \in 0..MaxHist, readable \in BOOLEAN :
                   PredictPerformance(hist, readable)
    \/ Respond

-----------------------------------------------------------------------------
(* Direct calls into TrainingService and the model objects it holds        *)

\* lengths of the record lists a caller hands to TrainingService
TrainerSizes == {0, 1, MinAggUsers * MinUserSessions, MinSamples}

\* what the data of one model type alone leads to in TrainingService.train_all
TrainerOwnOutcome(mt, data) ==
    IF data.n = 0 THEN "no_data"
    ELSE IF ModelTrain(mt, Fresh, data, 0).raised THEN "error"
    ELSE "trained"

\* the loop of TrainingService.train_all from position i on; a model type
\* whose list is missing or empty gets 'No training data provided'
RECURSIVE TrainerAllLoop(_, _, _, _, _)
TrainerAllLoop(i, st, datas, saves, r) ==
    IF i > Len(TypeOrder) THEN st
    ELSE LET mt == TypeOrder[i]
             data == datas[mt]
             t == TrainingServiceTrain(mt, st.models, st.disk, data, saves[mt], r)
             skipped == data.n = 0
             entry == [success |-> ~skipped /\ ~t.raised,
                       error |-> skipped \/ t.raised,
                       samples |-> IF skipped \/ t.raised THEN -1 ELSE data.n,
                       fitted |-> ~skipped /\ t.fits,
                       own |-> TrainerOwnOutcome(mt, data)]
         IN TrainerAllLoop(i + 1,
                           [models |-> IF skipped THEN st.models ELSE t.models,
                            disk |-> IF skipped THEN st.disk ELSE t.disk,
                            background |-> st.background,
                            results |-> Put(st.results, mt, entry)],
                           datas, saves, r)

\* training_service.train(model_type, data) called by any caller
TrainerTrain(mt, data, saveOk) ==
    /\ runs < MaxRuns
    /\ LET r == runs + 1
           t == TrainingServiceTrain(mt, models, disk, data, saveOk, r)
       IN /\ models' = t.models
          /\ disk' = t.disk
          /\ runs' = r
          /\ last' = [Blank EXCEPT !.op = "trainer_train", !.mt = mt, !.run = r,
                                   !.raised = t.raised,
                                   !.fetched = data.n,
                                   !.samples = IF t.raised THEN -1 ELSE data.n,
                                   !.trainer = TRUE,
                                   !.fitted = t.fits,
                                   !.inst = IF mt \in DOMAIN models
                                            THEN models[mt] ELSE Fresh,
                                   !.agg = data.agg,
                                   !.malformed = data.malformed,
                                   !.metrics = t.metrics]
    /\ UNCHANGED <<all_runs, configured, metrics_table, background, recoVars, fx>>

\* training_service.train_all(data) called by any caller
TrainerTrainAll(datas, saves) ==
    /\ all_runs < MaxAllRuns
    /\ all_runs' = all_runs + 1
    /\ runs < MaxRuns
    /\ LET r == runs + 1
           st == TrainerAllLoop(1, [models |-> models, disk |-> disk,
                                    background |-> background,
                                    results |-> EmptyDict],
                                datas, saves, r)
       IN /\ models' = st.models
          /\ disk' = st.disk
          /\ runs' = r
          /\ last' = [Blank EXCEPT !.op = "trainer_train_all", !.run = r,
                                   !.trainer = TRUE, !.results = st.results]
    /\ UNCHANGED <<configured, metrics_table, background, recoVars, fx>>

\* training_service.get_model('scheduling').predict(user_data)
SchedulingPredictCall(hist, readable) ==
    /\ LET self == models["scheduling"]
           p == SchedulingPredict(self, disk["scheduling"], readable, hist)
       IN last' = [Blank EXCEPT !.op = "scheduling_predict", !.hist = hist,
                                !.inst = self,
                                !.loadable = disk["scheduling"].present /\ readable,
                                !.raised = p.raised, !.pred = p.pred]
    /\ UNCHANGED <<configured, models, disk, metrics_table, background, runs,
                   all_runs, recoVars, fx>>

\* training_service.get_model('performance').predict(user_data, course_data)
PerformancePredictCall(hist, readable) ==
    /\ LET self == models["performance"]
           p == PerformancePredict(self, disk["performance"], readable, hist)
       IN /\ models' = [models EXCEPT !["performance"] = p.art]
          /\ last' = [Blank EXCEPT !.op = "performance_predict", !.hist = hist,
                                   !.inst = self,
                                   !.loadable = disk["performance"].present
                                                /\ readable,
                                   !.raised = p.raised, !.pred = p.pred]
    /\ UNCHANGED <<configured, disk, metrics_table, background, runs,
                   all_runs, recoVars, fx>>

\* training_service.train('scheduling', data) when model.save() gets through
\* `dumps` of its three dumps; the exception of the next one is swallowed
SchedulingTrainSave(data, dumps) ==
    /\ runs < MaxRuns
    /\ LET r == runs + 1
           t == ModelTrain("scheduling", models["scheduling"], data, r)
       IN /\ models' = [models EXCEPT !["scheduling"] = t.art]
          /\ disk' = IF t.raised THEN disk
                     ELSE [disk EXCEPT !["scheduling"] =
                              SchedulingSave(disk["scheduling"], t.art,
                                             dumps, r)]
          /\ runs' = r
          /\ last' = [Blank EXCEPT !.op = "scheduling_train_save",
                                   !.mt = "scheduling", !.run = r,
                                   !.raised = t.raised,
                                   !.fetched = data.n,
                                   !.samples = IF t.raised THEN -1 ELSE data.n,
                                   !.trainer = TRUE, !.fitted = t.fits,
                                   !.inst = models["scheduling"],
                                   !.malformed = data.malformed,
                                   !.metrics = t.metrics]
    /\ UNCHANGED <<all_runs, configured, metrics_table, background, recoVars, fx>>

\* SchedulingModel.load() called by any caller
SchedulingLoadCall(readable) ==
    /\ last' = [Blank EXCEPT !.op = "scheduling_load",
                             !.inst = ClassLoad("scheduling",
                                                disk["scheduling"], readable),
                             !.loadable = disk["scheduling"].present
                                          /\ readable]
    /\ UNCHANGED <<configured, models, disk, metrics_table, background, runs,
                   all_runs, recoVars, fx>>

\* the scheduling artifact through train, save, load and predict, the save
\* being three dumps any of which may raise
NextSave ==
    \/ Idle /\ runs < MaxRuns
       /\ \E data \in DataOf("scheduling", TrainerSizes),
             dumps \in 0..SchedulingDumps : SchedulingTrainSave(data, dumps)
    \/ Idle /\ \E readable \in BOOLEAN : SchedulingLoadCall(readable)
    \/ Idle /\ \E hist \in 0..MaxHist, readable \in BOOLEAN :
                   PredictSchedule(hist, readable)
    \/ Idle /\ \E hist \in 0..MaxHist, readable \in BOOLEAN :
                   SchedulingPredictCall(hist, readable)
    \/ Respond

NextTrainer ==
    \/ Next
    \/ Idle /\ runs < MaxRuns
       /\ \E mt \in ModelTypes \cup {"unknown"}, saveOk \in BOOLEAN :
              \E data \in DataOf(mt, TrainerSizes) : TrainerTrain(mt, data, saveOk)
    \/ Idle /\ runs < MaxRuns /\ all_runs < MaxAllRuns
       /\ \E d1 \in DataOf("scheduling", TrainerSizes),
             d2 \in DataOf("recommendation", TrainerSizes),
             d3 \in DataOf("performance", TrainerSizes),
             saves \in [ModelTypes -> BOOLEAN] :
              TrainerTrainAll([mt \in ModelTypes |->
                                  CASE mt = "scheduling" -> d1
                                    [] mt = "recommendation" -> d2
                                    [] mt = "performance" -> d3], saves)
    \/ Idle /\ \E hist \in 0..MaxHist, readable \in BOOLEAN :
                   SchedulingPredictCall(hist, readable)
    \/ Idle /\ \E hist \in 0..MaxHist, readable \in BOOLEAN :
                   PerformancePredictCall(hist, readable)

-----------------------------------------------------------------------------
(* RecommendationModel                                                     *)

\* records as fetched for the recommendation model; an id may be missing
RecoRecords ==
    [user_id : Users, course_id : Courses, completed : BOOLEAN]
    \cup {[user_id |-> NoneId, course_id |-> "c1", completed |-> TRUE],
          [user_id |-> "u1", course_id |-> NoneId, completed |-> TRUE]}

\* longer record lists: users whose course sets overlap in part, and a course
\* that two other users have taken
RecoSamples ==
    LET r(u, c, done) == [user_id |-> u, course_id |-> c, completed |-> done]
    IN {<<r("u1", "c1", TRUE), r("u2", "c1", TRUE), r("u2", "c2", FALSE)>>,
        <<r("u1", "c1", TRUE), r("u2", "c1", TRUE), r("u3", "c1", FALSE)>>,
        <<r("u1", "c1", FALSE), r("u1", "c2", TRUE), r("u2", "c2", TRUE),
          r("u3", "c2", FALSE)>>}

RecoBatches == UNION {[1..k -> RecoRecords] : k \in 0..MaxRecs} \cup RecoSamples

\* score = 1.0 if completed else 0.5
InteractionScore(completed) == IF completed THEN One ELSE Half

\* the loop of train with the pair's score overwritten by each record
RECURSIVE TrainLoopLastWins(_, _, _, _)
TrainLoopLastWins(data, i, ucm, cc) ==
    IF i > Len(data) THEN [ucm |-> ucm, cc |-> cc]
    ELSE LET record == data[i]
             user_id == record.user_id
             course_id == record.course_id
         IN IF user_id = NoneId \/ course_id = NoneId
            THEN TrainLoopLastWins(data, i + 1, ucm, cc)
            ELSE LET row == Get(ucm, user_id, EmptyDict)
                     old == Get(cc, course_id, [total |-> 0, completed |-> 0])
                     new == [total |-> old.total + 1,
                             completed |-> old.completed
                                           + (IF record.completed THEN 1 ELSE 0)]
                 IN TrainLoopLastWins(
                        data, i + 1,
                        Put(ucm, user_id,
                            Put(row, course_id,
                                InteractionScore(record.completed))),
                        Put(cc, course_id, new))

\* the loop body of train for records i..Len(data), threading the two dicts
RECURSIVE TrainLoop(_, _, _, _)
TrainLoop(data, i, ucm, cc) ==
    IF i > Len(data) THEN [ucm |-> ucm, cc |-> cc]
    ELSE LET record == data[i]
             user_id == record.user_id
             course_id == record.course_id
         IN IF user_id = NoneId \/ course_id = NoneId
            THEN TrainLoop(data, i + 1, ucm, cc)
            ELSE LET row == Get(ucm, user_id, EmptyDict)
                     best == RMax(Get(row, course_id, Zero),
                                  InteractionScore(record.completed))
                     old == Get(cc, course_id, [total |-> 0, completed |-> 0])
                     new == [total |-> old.total + 1,
                             completed |-> old.completed
                                           + (IF record.completed THEN 1 ELSE 0)]
                 IN TrainLoop(data, i + 1,
                              Put(ucm, user_id, Put(row, course_id, best)),
                              Put(cc, course_id, new))

\* level_match.get((user_level, course_level), 0.5), in tenths
LevelMatchDefault == Rat(5, 10)
LevelMatch(user_level, course_level) ==
    CASE user_level = "beginner" /\ course_level = "beginner" -> Rat(10, 10)
      [] user_level = "beginner" /\ course_level = "intermediate" -> Rat(7, 10)
      [] user_level = "beginner" /\ course_level = "advanced" -> Rat(3, 10)
      [] user_level = "intermediate" /\ course_level = "beginner" -> Rat(6, 10)
      [] user_level = "intermediate" /\ course_level = "intermediate" -> Rat(10, 10)
      [] user_level = "intermediate" /\ course_level = "advanced" -> Rat(8, 10)
      [] user_level = "advanced" /\ course_level = "beginner" -> Rat(3, 10)
      [] user_level = "advanced" /\ course_level = "intermediate" -> Rat(7, 10)
      [] user_level = "advanced" /\ course_level = "advanced" -> Rat(10, 10)
      [] OTHER -> LevelMatchDefault

\* str.lower() on the category and interest strings of the model
Lower(s) ==
    CASE s = "Math" -> "math"
      [] s = "MATH" -> "math"
      [] s = "Art" -> "art"
      [] OTHER -> s

\* similar_scores without the similarity factor: the other users' scores for
\* the course as they are
SimilarScoresUnweighted(user_id, course_id, profiles) ==
    LET user_courses == DOMAIN profiles[user_id]
        others == SetToSeq(DOMAIN profiles \ {user_id})
        Contribution(other_id) ==
            LET other_courses == profiles[other_id]
                overlap == Cardinality(user_courses \cap DOMAIN other_courses)
            IN IF overlap > 0 /\ course_id \in DOMAIN other_courses
               THEN <<other_courses[course_id]>>
               ELSE <<>>
        F[i \in 0..Len(others)] ==
            IF i = 0 THEN <<>> ELSE F[i - 1] \o Contribution(others[i])
    IN F[Len(others)]

\* the list similar_scores of _calculate_collaborative_score
SimilarScores(user_id, course_id, profiles) ==
    LET user_courses == DOMAIN profiles[user_id]
        others == SetToSeq(DOMAIN profiles \ {user_id})
        Contribution(other_id) ==
            LET other_courses == profiles[other_id]
                overlap == Cardinality(user_courses \cap DOMAIN other_courses)
            IN IF overlap > 0 /\ course_id \in DOMAIN other_courses
               THEN <<RMul(other_courses[course_id],
                           Rat(overlap,
                               Cardinality(user_courses \cup DOMAIN other_courses)))>>
               ELSE <<>>
        F[i \in 0..Len(others)] ==
            IF i = 0 THEN <<>> ELSE F[i - 1] \o Contribution(others[i])
    IN F[Len(others)]

CollaborativeDefault == Half

CollaborativeSentinel(user_id, course_id, profiles) ==
    IF user_id \notin DOMAIN profiles THEN Rat(-1, 1)
    ELSE LET similar_scores == SimilarScores(user_id, course_id, profiles)
         IN IF similar_scores # <<>> THEN RMean(similar_scores) ELSE Rat(-1, 1)

CalculateCollaborativeScore(user_id, course_id, profiles) ==
    IF user_id \notin DOMAIN profiles THEN CollaborativeDefault
    ELSE LET similar_scores == SimilarScores(user_id, course_id, profiles)
         IN IF similar_scores # <<>> THEN RMean(similar_scores)
            ELSE CollaborativeDefault

\* user_data and course as far as _calculate_course_score reads them
UserProfiles ==
    [id : Users \cup {"new"},
     skill_level : {"beginner", "intermediate", "expert"},
     interests : {{}, {"Art", "MATH"}}]

CandidateCourses ==
    [id : Courses \cup {"c9"},
     difficulty : {"beginner", "advanced"},
     category : {"math", ""}]

CalculateCourseScore(user_data, course, profiles, stats_of) ==
    LET course_id == course.id
        popularity ==
            IF course_id \in DOMAIN stats_of /\ stats_of[course_id].total > 0
            THEN RMul(Rat(stats_of[course_id].completed, stats_of[course_id].total),
                      Rat(3, 10))
            ELSE Zero
        difficulty ==
            RMul(LevelMatch(user_data.skill_level, course.difficulty), Rat(2, 10))
        category ==
            IF Lower(course.category) \in {Lower(i) : i \in user_data.interests}
            THEN Rat(3, 10) ELSE Zero
        similar_user_boost ==
            RMul(CalculateCollaborativeScore(user_data.id, course_id, profiles),
                 Rat(2, 10))
    IN Norm(RMin(One, RAdd(RAdd(RAdd(popularity, difficulty), category),
                           similar_user_boost)))

\* RecommendationModel._generate_reason: the headline chosen by the score,
\* and the completion rate in percent of a course with more than 10 records
GenerateReason(course, s, stats_of) ==
    LET course_stats == Get(stats_of, course.id, [total |-> 0, completed |-> 0])
    IN [headline |->
            IF RLess(Rat(8, 10), s)
            THEN "Highly recommended based on your learning patterns"
            ELSE IF RLess(Rat(6, 10), s)
            THEN "Good match for your skill level and interests"
            ELSE "Explore new topics outside your usual areas",
        completion_rate |->
            IF course_stats.total > 10
            THEN Norm(Rat(100 * course_stats.completed, course_stats.total))
            ELSE [n |-> 0, d |-> 0]]

\* course_scores.sort(key=score, reverse=True): a stable sort, so of two
\* entries with the same score the earlier one stays first
SortByScoreDesc(course_scores) ==
    LET Insert(sorted, e) ==
            LET k == Cardinality({i \in 1..Len(sorted) :
                                     RLeq(e.score, sorted[i].score)})
            IN SubSeq(sorted, 1, k) \o <<e>> \o SubSeq(sorted, k + 1, Len(sorted))
        F[i \in 0..Len(course_scores)] ==
            IF i = 0 THEN <<>> ELSE Insert(F[i - 1], course_scores[i])
    IN F[Len(course_scores)]

\* xs[:limit]: the first limit entries, and for a negative limit all but the
\* last -limit entries
SliceTo(xs, limit) ==
    LET stop == IF limit >= 0 THEN limit ELSE Len(xs) + limit
    IN SubSeq(xs, 1, IF stop > Len(xs) THEN Len(xs)
                     ELSE IF stop < 0 THEN 0 ELSE stop)

\* RecommendationModel.recommend without the test of the enrolled courses
RecommendSkipCompletedOnly(user_data, courses, limit, profiles, stats_of) ==
    IF courses = <<>> THEN <<>>
    ELSE LET completed_courses == Get(user_data, "completed_courses", {})
             kept == SelectSeq(courses,
                               LAMBDA course : course.id \notin completed_courses)
             course_scores ==
                 [i \in 1..Len(kept) |->
                     LET s == CalculateCourseScore(user_data, kept[i],
                                                   profiles, stats_of)
                     IN [course_id |-> kept[i].id, score |-> s,
                         reason |-> GenerateReason(kept[i], s, stats_of)]]
         IN SliceTo(SortByScoreDesc(course_scores), limit)

\* RecommendationModel.recommend(user_data, courses, limit) on the lookup
\* tables profiles and stats_of; set(list) is the set of the list's entries
Recommend(user_data, courses, limit, profiles, stats_of) ==
    IF courses = <<>> THEN <<>>
    ELSE LET completed_courses == Get(user_data, "completed_courses", {})
             enrolled_courses == Get(user_data, "enrolled_courses", {})
             kept == SelectSeq(courses,
                               LAMBDA course :
                                   /\ course.id \notin completed_courses
                                   /\ course.id \notin enrolled_courses)
             course_scores ==
                 [i \in 1..Len(kept) |->
                     LET s == CalculateCourseScore(user_data, kept[i],
                                                   profiles, stats_of)
                     IN [course_id |-> kept[i].id, score |-> s,
                         reason |-> GenerateReason(kept[i], s, stats_of)]]
         IN SliceTo(SortByScoreDesc(course_scores), limit)

\* the callers' arguments of recommend: users with and without the two course
\* lists, candidate lists of distinct courses, limits around the list lengths
RecommendUsers ==
    {[id |-> u, skill_level |-> "beginner", interests |-> {"MATH"}] :
        u \in {"u1", "new"}}
    \cup [id : {"u1", "new"}, skill_level : {"beginner"}, interests : {{"MATH"}},
          completed_courses : {{}, {"c1"}},
          enrolled_courses : {{}, {"c2"}}]

CandidatePool ==
    {[id |-> "c1", difficulty |-> "beginner", category |-> "math"],
     [id |-> "c2", difficulty |-> "beginner", category |-> "math"],
     [id |-> "c9", difficulty |-> "beginner", category |-> "math"],
     [id |-> "c8", difficulty |-> "advanced", category |-> ""]}

CandidateLists ==
    {cs \in UNION {[1..k -> CandidatePool] : k \in 0..3} :
        \A i \in 1..Len(cs) : \A j \in 1..Len(cs) : cs[i] = cs[j] => i = j}

Limits == {-1, 0, 2, 5}

\* no recommend or collaborative-score call is in progress
NoRecoCall ==
    [op |-> "none", user_data |-> EmptyDict, courses |-> <<>>, limit |-> 0,
     result |-> <<>>, user_id |-> NoneId, course_id |-> NoneId,
     value |-> [n |-> 0, d |-> 0], data |-> <<>>, before |-> EmptyDict]

NoScore == [n |-> 0, d |-> 0]  \* no score computed yet

RecoInit ==
    /\ user_profiles = EmptyDict
    /\ course_profiles = EmptyDict
    /\ reco_trained = FALSE
    /\ score = NoScore
    /\ reco_call = NoRecoCall

\* RecommendationModel.train(data).  Calls do not overlap (the model object is
\* used from one thread and neither method awaits), so a call starts only when
\* no scoring call is in progress.
RecoTrain(data) ==
    LET built == TrainLoop(data, 1, EmptyDict, EmptyDict)
    IN /\ score = NoScore
       /\ user_profiles' = built.ucm
       /\ course_profiles' = built.cc
       /\ reco_trained' = TRUE
       /\ reco_call' = [NoRecoCall EXCEPT !.op = "train", !.data = data,
                                          !.before = user_profiles]
       /\ UNCHANGED <<score, svcVars, fx>>

\* RecommendationModel._calculate_course_score on the current lookup tables
RecoScore(user_data, course) ==
    /\ score = NoScore
    /\ score' = CalculateCourseScore(user_data, course,
                                     user_profiles, course_profiles)
    /\ UNCHANGED <<user_profiles, course_profiles, reco_trained, reco_call,
                   svcVars, fx>>

\* RecommendationModel.recommend(user_data, courses, limit) on the current
\* lookup tables
RecoRecommend(user_data, courses, limit) ==
    /\ reco_call' = [NoRecoCall EXCEPT
                         !.op = "recommend", !.user_data = user_data,
                         !.courses = courses, !.limit = limit,
                         !.result = Recommend(user_data, courses, limit,
                                              user_profiles, course_profiles)]
    /\ UNCHANGED <<user_profiles, course_profiles, reco_trained, score,
                   svcVars, fx>>

\* RecommendationModel._calculate_collaborative_score on the current
\* user_profiles
RecoCollaborative(user_id, course_id) ==
    /\ reco_call' = [NoRecoCall EXCEPT
                         !.op = "collaborative", !.user_id = user_id,
                         !.course_id = course_id,
                         !.value = CalculateCollaborativeScore(
                                       user_id, course_id, user_profiles)]
    /\ UNCHANGED <<user_profiles, course_profiles, reco_trained, score,
                   svcVars, fx>>

\* the call in progress returns its value and its frame is gone
RecoReturn ==
    /\ score # NoScore \/ reco_call.op # "none"
    /\ score' = NoScore
    /\ reco_call' = NoRecoCall
    /\ UNCHANGED <<user_profiles, course_profiles, reco_trained, svcVars, fx>>

\* no call of the recommendation model is in progress
RecoIdle == score = NoScore /\ reco_call.op = "none"

RecoNext ==
    \/ RecoIdle /\ \E data \in RecoBatches : RecoTrain(data)
    \/ RecoIdle /\ \E user_data \in UserProfiles, course \in CandidateCourses :
                       RecoScore(user_data, course)
    \/ RecoIdle /\ \E user_data \in RecommendUsers, courses \in CandidateLists,
                       limit \in Limits :
                       RecoRecommend(user_data, courses, limit)
    \/ RecoIdle /\ \E user_id \in Users \cup {"new"}, course_id \in Courses :
                       RecoCollaborative(user_id, course_id)
    \/ RecoReturn

-----------------------------------------------------------------------------
(* Session records and the feature builders of the scheduling and         *)
(* performance models.  A string that the code slices is a sequence of    *)
(* one-character strings; a record is a function from its keys to values. *)

\* the value None of a timestamp, of a method and of a numeric column
NoneTs == <<"None">>
NoneStr == "None"
NoneNum == -1

DigitChars == <<"0", "1", "2", "3", "4", "5", "6", "7", "8", "9">>

IsDigit(c) == \E i \in 1..10 : DigitChars[i] = c

DigitVal(c) == (CHOOSE i \in 1..10 : DigitChars[i] = c) - 1

\* int(s) of a two-character string: digits, with surrounding blanks or a
\* sign allowed; anything else raises ValueError
IntOf2(a, b) ==
    IF IsDigit(a) /\ IsDigit(b)
    THEN [raised |-> FALSE, v |-> 10 * DigitVal(a) + DigitVal(b)]
    ELSE IF a \in {" ", "+"} /\ IsDigit(b)
    THEN [raised |-> FALSE, v |-> DigitVal(b)]
    ELSE IF a = "-" /\ IsDigit(b)
    THEN [raised |-> FALSE, v |-> 0 - DigitVal(b)]
    ELSE IF IsDigit(a) /\ b = " "
    THEN [raised |-> FALSE, v |-> DigitVal(a)]
    ELSE [raised |-> TRUE, v |-> 0]

DefaultHour == 12

\* the hour parse with the length test written as len(started_at) > 14
HourOfLongerThan14(started_at) ==
    IF started_at = NoneTs THEN DefaultHour
    ELSE IF Len(started_at) > 14
    THEN LET p == IntOf2(started_at[12], started_at[13])
         IN IF p.raised THEN DefaultHour ELSE p.v
    ELSE DefaultHour

\* int(started_at[11:13]) if len(started_at) > 13 else 12, inside try/except
\* with hour = 12 in the handler; len(None) raises TypeError
HourOf(started_at) ==
    IF started_at = NoneTs THEN DefaultHour
    ELSE IF Len(started_at) > 13
    THEN LET p == IntOf2(started_at[12], started_at[13])
         IN IF p.raised THEN DefaultHour ELSE p.v
    ELSE DefaultHour

\* the hour as SchedulingModel.prepare_features derives it: the slice is
\* taken only of a non-empty str
SchedulingHour(started_at) ==
    IF started_at # NoneTs /\ started_at # <<>>
    THEN HourOf(started_at) ELSE DefaultHour

\* the number written with the digits s[i..j], -1 when one is no digit
NumAt(s, i, j) ==
    LET F[k \in (i - 1)..j] ==
            IF k = i - 1 THEN 0
            ELSE LET prev == F[k - 1]
                 IN IF prev < 0 \/ ~IsDigit(s[k]) THEN -1
                    ELSE 10 * prev + DigitVal(s[k])
    IN F[j]

IsLeap(y) == (y % 4 = 0 /\ y % 100 # 0) \/ y % 400 = 0

DaysIn(y, m) ==
    IF m = 2 THEN (IF IsLeap(y) THEN 29 ELSE 28)
    ELSE IF m \in {4, 6, 9, 11} THEN 30 ELSE 31

\* started_at.replace('Z', '+00:00')
ReplaceZ(s) ==
    LET F[k \in 0..Len(s)] ==
            IF k = 0 THEN <<>>
            ELSE F[k - 1] \o (IF s[k] = "Z" THEN <<"+", "0", "0", ":", "0", "0">>
                              ELSE <<s[k]>>)
    IN F[Len(s)]

\* whether datetime.fromisoformat accepts t, for the shapes YYYY-MM-DD,
\* YYYY-MM-DD?HH, YYYY-MM-DD?HH:MM and YYYY-MM-DD?HH:MM:SS, each with an
\* optional offset +00:00; every other string of the model is rejected
IsoDate(t) ==
    /\ Len(t) >= 10
    /\ t[5] = "-" /\ t[8] = "-"
    /\ LET y == NumAt(t, 1, 4)
           m == NumAt(t, 6, 7)
           d == NumAt(t, 9, 10)
       IN y >= 1 /\ m \in 1..12 /\ d >= 1 /\ d <= DaysIn(y, m)

IsoTime(t, n) ==
    /\ n \in {13, 16, 19}
    /\ NumAt(t, 12, 13) \in 0..23
    /\ n >= 16 => (t[14] = ":" /\ NumAt(t, 15, 16) \in 0..59)
    /\ n >= 19 => (t[17] = ":" /\ NumAt(t, 18, 19) \in 0..59)

IsoAccepted(t) ==
    /\ IsoDate(t)
    /\ \/ Len(t) = 10
       \/ IsoTime(t, Len(t))
       \/ /\ Len(t) \in {19, 22, 25}
          /\ IsoTime(t, Len(t) - 6)
          /\ SubSeq(t, Len(t) - 5, Len(t)) = <<"+", "0", "0", ":", "0", "0">>

MonthOffset == <<0, 3, 2, 5, 0, 3, 5, 1, 4, 6, 2, 4>>

\* date.weekday(): Monday is 0
Weekday(y, m, d) ==
    LET yy == IF m < 3 THEN y - 1 ELSE y
        sunday0 == (yy + (yy \div 4) - (yy \div 100) + (yy \div 400)
                    + MonthOffset[m] + d) % 7
    IN (sunday0 + 6) % 7

DefaultWeekday == 0

\* datetime.fromisoformat(started_at.replace('Z', '+00:00')).weekday() inside
\* try/except with day_of_week = 0 in the handler; None has no replace
SchedulingWeekday(started_at) ==
    IF started_at = NoneTs THEN DefaultWeekday
    ELSE LET t == ReplaceZ(started_at)
         IN IF IsoAccepted(t)
            THEN Weekday(NumAt(t, 1, 4), NumAt(t, 6, 7), NumAt(t, 9, 10))
            ELSE DefaultWeekday

\* timestamps as the sessions table and other callers can hold them
TsEmpty == <<>>
TsDateOnly == <<"2", "0", "2", "4", "-", "0", "1", "-", "1", "7">>
TsThirteen ==
    <<"2", "0", "2", "4", "-", "0", "1", "-", "1", "7", "T", "0", "9">>
TsFourteen ==
    <<"2", "0", "2", "4", "-", "0", "1", "-", "1", "7", "T", "0", "9", ":">>
TsMorning ==
    <<"2", "0", "2", "4", "-", "0", "1", "-", "1", "7", "T", "0", "9", ":",
      "3", "0", ":", "0", "0">>
TsEvening ==
    <<"2", "0", "2", "4", "-", "0", "1", "-", "2", "0", "T", "2", "1", ":",
      "0", "5", ":", "0", "0", "Z">>
TsNoDigits ==
    <<"2", "0", "2", "4", "-", "0", "1", "-", "1", "7", "T", "x", "x", ":",
      "3", "0", ":", "0", "0">>
TsBlankHour ==
    <<"2", "0", "2", "4", "-", "0", "1", "-", "1", "8", "T", " ", "7", ":",
      "3", "0", ":", "0", "0">>

Timestamps ==
    {NoneTs, TsEmpty, TsDateOnly, TsThirteen, TsFourteen,
     TsMorning, TsEvening, TsNoDigits, TsBlankHour}

\* SchedulingModel.METHODS
METHODS == <<"pomodoro", "flowtime", "blitz", "52_17">>

DefaultMethod == "pomodoro"
DefaultDuration == 1500
DefaultTabSwitches == 0

InMethods(m) == \E i \in 1..Len(METHODS) : METHODS[i] = m

\* METHODS.index(m): the 0-based position, ValueError when m is not listed
MethodsIndex(m) ==
    IF InMethods(m)
    THEN [raised |-> FALSE,
          v |-> (CHOOSE i \in 1..Len(METHODS) : METHODS[i] = m) - 1]
    ELSE [raised |-> TRUE, v |-> 0]

\* the code point of the first character of a method name; the four names
\* differ in it, so it decides their order under sorted()
CodePoint(m) ==
    CASE m = "52_17" -> 53
      [] m = "blitz" -> 98
      [] m = "flowtime" -> 102
      [] m = "pomodoro" -> 112

\* LabelEncoder.fit(names): classes_ is the sorted list of the names
LabelFit(names) ==
    LET Insert(sorted, m) ==
            LET k == Cardinality({i \in 1..Len(sorted) :
                                     CodePoint(sorted[i]) <= CodePoint(m)})
            IN SubSeq(sorted, 1, k) \o <<m>> \o SubSeq(sorted, k + 1, Len(sorted))
        F[i \in 0..Len(names)] ==
            IF i = 0 THEN <<>> ELSE Insert(F[i - 1], names[i])
    IN F[Len(names)]

\* self.label_encoder after __init__
LabelClasses == LabelFit(METHODS)

\* the label taken as the method's position in METHODS, as the feature column
\* is, instead of its position in classes_
LabelEncodeByMethodsIndex(m) == MethodsIndex(m).v

\* LabelEncoder.transform of one label: its 0-based position in classes_
LabelEncode(m) ==
    (CHOOSE i \in 1..Len(LabelClasses) : LabelClasses[i] = m) - 1

\* LabelEncoder.inverse_transform of one integer label
LabelDecode(i) == LabelClasses[i + 1]

\* x / k for a numeric column value x; None / k raises TypeError
Divide(x, k) ==
    IF x = NoneNum THEN [raised |-> TRUE, v |-> Zero]
    ELSE [raised |-> FALSE, v |-> Norm(Rat(x, k))]

\* bool(record.get('completed', False))
Completed(record) == Get(record, "completed", FALSE)

\* the feature vector SchedulingModel.prepare_features builds for one record
SchedulingFeature(record) ==
    LET started_at == Get(record, "started_at", <<>>)
        hour == SchedulingHour(started_at)
        day_of_week == SchedulingWeekday(started_at)
        method == MethodsIndex(Get(record, "method_used", DefaultMethod))
        duration == Divide(Get(record, "duration_seconds", DefaultDuration), 7200)
        switches == Divide(Get(record, "tab_switch_count", DefaultTabSwitches), 20)
    IN [raised |-> method.raised \/ duration.raised \/ switches.raised,
        row |-> <<Norm(Rat(hour, 24)), Norm(Rat(day_of_week, 7)),
                  Norm(Rat(method.v, 4)), duration.v, switches.v,
                  IF Completed(record) THEN One ELSE Zero>>]

\* SchedulingModel.prepare_features: one row per record, or the exception of
\* the first record whose row cannot be built
SchedulingPrepareFeatures(data) ==
    LET features == [i \in 1..Len(data) |-> SchedulingFeature(data[i])]
    IN IF \E i \in 1..Len(data) : features[i].raised
       THEN [raised |-> TRUE, rows |-> <<>>]
       ELSE [raised |-> FALSE,
             rows |-> [i \in 1..Len(data) |-> features[i].row]]

\* SchedulingModel.prepare_labels: the encoded method of every record, a
\* method outside METHODS counted as 'pomodoro'
PrepareLabels(data) ==
    [i \in 1..Len(data) |->
        LET method == Get(data[i], "method_used", DefaultMethod)
        IN LabelEncode(IF InMethods(method) THEN method ELSE DefaultMethod)]

RSub(a, b) == RAdd(a, RMul(Rat(-1, 1), b))

\* whether a list of numeric column values holds None
HasNone(xs) == \E i \in 1..Len(xs) : xs[i] = NoneNum

SumInts(xs) ==
    LET F[i \in 0..Len(xs)] == IF i = 0 THEN 0 ELSE F[i - 1] + xs[i]
    IN F[Len(xs)]

\* np.mean of a non-empty list of integers
MeanInts(xs) == Norm(Rat(SumInts(xs), Len(xs)))

\* the square of np.std of a non-empty list of integers: the population
\* variance mean(x^2) - mean(x)^2
VarInts(xs) ==
    LET squares == [i \in 1..Len(xs) |-> xs[i] * xs[i]]
        m == MeanInts(xs)
    IN Norm(RSub(MeanInts(squares), RMul(m, m)))

\* record.get('userId', record.get('user_id'))
UserIdOf(record) == Get(record, "userId", Get(record, "user_id", NoneId))

\* the lists PerformanceModel keeps of a user's sessions, read from each
\* record under its two key names
PerformanceStats(sessions) ==
    [sessions |-> sessions,
     durations |-> [i \in 1..Len(sessions) |->
                       Get(sessions[i], "duration_seconds",
                           Get(sessions[i], "duration", DefaultDuration))],
     tab_switches |-> [i \in 1..Len(sessions) |->
                          Get(sessions[i], "tabSwitchCount",
                              Get(sessions[i], "tab_switch_count",
                                  DefaultTabSwitches))],
     completed |-> [i \in 1..Len(sessions) |->
                       IF Completed(sessions[i]) THEN 1 ELSE 0],
     methods |-> [i \in 1..Len(sessions) |->
                     Get(sessions[i], "method",
                         Get(sessions[i], "method_used", DefaultMethod))],
     hours |-> [i \in 1..Len(sessions) |->
                   HourOf(Get(sessions[i], "started_at", <<>>))]]

\* the 8-entry feature vector of one user; the two entries the code computes
\* with np.std hold the square of the code's value (the variance)
PerformanceFeature(stats) ==
    LET n == Len(stats.sessions)
        methods == {stats.methods[i] : i \in 1..n}
        raised == HasNone(stats.durations) \/ HasNone(stats.tab_switches)
    IN IF raised THEN [raised |-> TRUE, row |-> <<>>]
       ELSE [raised |-> FALSE,
             row |-> <<Norm(RMul(MeanInts(stats.durations), Rat(1, 3600))),
                       IF n > 1
                       THEN Norm(RMul(VarInts(stats.durations),
                                      Rat(1, 3600 * 3600)))
                       ELSE Zero,
                       MeanInts(stats.tab_switches),
                       MeanInts(stats.completed),
                       Norm(Rat(Cardinality(methods), 4)),
                       IF n > 1 THEN VarInts(stats.hours) ELSE Zero,
                       Norm(Rat(n, 100)),
                       IF DefaultMethod \in methods THEN One ELSE Zero>>]

\* the user ids of data in the order user_stats first sees them; a record
\* whose id is None or empty is skipped
UserOrder(data) ==
    LET F[i \in 0..Len(data)] ==
            IF i = 0 THEN <<>>
            ELSE LET u == UserIdOf(data[i])
                     seen == F[i - 1]
                 IN IF u \in {NoneId, ""} \/ \E k \in 1..Len(seen) : seen[k] = u
                    THEN seen ELSE Append(seen, u)
    IN F[Len(data)]

SessionsOf(data, u) == SelectSeq(data, LAMBDA r : UserIdOf(r) = u)

\* PerformanceModel.prepare_features: one row per user with at least
\* MinUserSessions sessions, or the exception np.mean raises on None
PerformancePrepareFeatures(data) ==
    LET users == UserOrder(data)
        F[i \in 0..Len(users)] ==
            IF i = 0 THEN [raised |-> FALSE, rows |-> <<>>]
            ELSE LET prev == F[i - 1]
                     sessions == SessionsOf(data, users[i])
                     f == PerformanceFeature(PerformanceStats(sessions))
                 IN IF prev.raised \/ Len(sessions) < MinUserSessions
                    THEN prev
                    ELSE IF f.raised THEN [raised |-> TRUE, rows |-> <<>>]
                    ELSE [raised |-> FALSE, rows |-> Append(prev.rows, f.row)]
    IN F[Len(users)]

\* the feature vector PerformanceModel.predict builds of a non-empty history
PerformancePredictFeature(user_data) ==
    PerformanceFeature(PerformanceStats(user_data))

\* _calculate_risk_level with the quiz-score comparisons reversed
CalculateRiskLevelQuizReversed(completion_rate, quiz_score, tab_switches) ==
    LET completion_points ==
            IF RLess(completion_rate, Rat(5, 10)) THEN 2
            ELSE IF RLess(completion_rate, Rat(7, 10)) THEN 1 ELSE 0
        quiz_points ==
            IF RLess(Rat(75, 1), quiz_score) THEN 2
            ELSE IF RLess(Rat(60, 1), quiz_score) THEN 1 ELSE 0
        switch_points ==
            IF tab_switches # <<>> /\ RLess(Rat(5, 1), MeanInts(tab_switches))
            THEN 1 ELSE 0
        risk_score == completion_points + quiz_points + switch_points
    IN IF risk_score >= 4 THEN "high"
       ELSE IF risk_score >= 2 THEN "medium" ELSE "low"

\* _calculate_risk_level with 'high' starting at a risk score of 3
CalculateRiskLevelHighAtThree(completion_rate, quiz_score, tab_switches) ==
    LET completion_points ==
            IF RLess(completion_rate, Rat(5, 10)) THEN 2
            ELSE IF RLess(completion_rate, Rat(7, 10)) THEN 1 ELSE 0
        quiz_points ==
            IF RLess(quiz_score, Rat(60, 1)) THEN 2
            ELSE IF RLess(quiz_score, Rat(75, 1)) THEN 1 ELSE 0
        switch_points ==
            IF tab_switches # <<>> /\ RLess(Rat(5, 1), MeanInts(tab_switches))
            THEN 1 ELSE 0
        risk_score == completion_points + quiz_points + switch_points
    IN IF risk_score >= 3 THEN "high"
       ELSE IF risk_score >= 2 THEN "medium" ELSE "low"

\* PerformanceModel._calculate_risk_level; np.mean of an empty list is nan,
\* which is not greater than 5
CalculateRiskLevel(completion_rate, quiz_score, tab_switches) ==
    LET completion_points ==
            IF RLess(completion_rate, Rat(5, 10)) THEN 2
            ELSE IF RLess(completion_rate, Rat(7, 10)) THEN 1 ELSE 0
        quiz_points ==
            IF RLess(quiz_score, Rat(60, 1)) THEN 2
            ELSE IF RLess(quiz_score, Rat(75, 1)) THEN 1 ELSE 0
        switch_points ==
            IF tab_switches # <<>> /\ RLess(Rat(5, 1), MeanInts(tab_switches))
            THEN 1 ELSE 0
        risk_score == completion_points + quiz_points + switch_points
    IN IF risk_score >= 4 THEN "high"
       ELSE IF risk_score >= 2 THEN "medium" ELSE "low"

\* the hour _find_optimal_hours reads of a record; an exception (len(None),
\* int of a non-number) makes the loop skip the record
HourTry(started_at) ==
    IF started_at = NoneTs THEN [raised |-> TRUE, v |-> 0]
    ELSE IF Len(started_at) > 13
    THEN IntOf2(started_at[12], started_at[13])
    ELSE [raised |-> FALSE, v |-> DefaultHour]

\* hour_stats as a list of [hour, total, completed] in insertion order
HourStats(user_data) ==
    LET Bump(stats, hour, done) ==
            IF \E k \in 1..Len(stats) : stats[k].hour = hour
            THEN [k \in 1..Len(stats) |->
                     IF stats[k].hour = hour
                     THEN [hour |-> hour, total |-> stats[k].total + 1,
                           completed |-> stats[k].completed
                                         + (IF done THEN 1 ELSE 0)]
                     ELSE stats[k]]
            ELSE Append(stats, [hour |-> hour, total |-> 1,
                                completed |-> IF done THEN 1 ELSE 0])
        F[i \in 0..Len(user_data)] ==
            IF i = 0 THEN <<>>
            ELSE LET h == HourTry(Get(user_data[i], "started_at", <<>>))
                     prev == F[i - 1]
                 IN IF h.raised THEN prev
                    ELSE Bump(prev, h.v, Completed(user_data[i]))
    IN F[Len(user_data)]

MinHourSamples == 3
MaxOptimalHours == 6

\* hour_rates.sort(key=rate, reverse=True): a stable sort, so of two entries
\* with the same rate the earlier one stays first
SortByRateDesc(hour_rates) ==
    LET Insert(sorted, e) ==
            LET k == Cardinality({i \in 1..Len(sorted) :
                                     RLeq(e.rate, sorted[i].rate)})
            IN SubSeq(sorted, 1, k) \o <<e>> \o SubSeq(sorted, k + 1, Len(sorted))
        F[i \in 0..Len(hour_rates)] ==
            IF i = 0 THEN <<>> ELSE Insert(F[i - 1], hour_rates[i])
    IN F[Len(hour_rates)]

\* sorted(xs) of a list of integers
SortedInts(xs) ==
    LET Insert(sorted, x) ==
            LET k == Cardinality({i \in 1..Len(sorted) : sorted[i] <= x})
            IN SubSeq(sorted, 1, k) \o <<x>> \o SubSeq(sorted, k + 1, Len(sorted))
        F[i \in 0..Len(xs)] == IF i = 0 THEN <<>> ELSE Insert(F[i - 1], xs[i])
    IN F[Len(xs)]

\* xs[:n] for n >= 0
Take(xs, n) == SubSeq(xs, 1, IF n < Len(xs) THEN n ELSE Len(xs))

\* _find_optimal_hours without the sort by rate: the first six qualifying
\* hours in the order they occur in the history
FindOptimalHoursFirstSix(user_data) ==
    LET stats == HourStats(user_data)
        qualifying == SelectSeq(stats, LAMBDA s : s.total >= MinHourSamples)
        top == SubSeq(qualifying, 1,
                      IF Len(qualifying) > MaxOptimalHours
                      THEN MaxOptimalHours ELSE Len(qualifying))
        optimal == IF qualifying # <<>>
                   THEN [i \in 1..Len(top) |-> top[i].hour]
                   ELSE DefaultHours
    IN SortedInts(optimal)

\* _find_optimal_hours returning the top hours in the order of their rates
FindOptimalHoursByRate(user_data) ==
    LET stats == HourStats(user_data)
        qualifying == SelectSeq(stats, LAMBDA s : s.total >= MinHourSamples)
        hour_rates == [i \in 1..Len(qualifying) |->
                          [hour |-> qualifying[i].hour,
                           rate |-> Rat(qualifying[i].completed,
                                        qualifying[i].total)]]
        top == Take(SortByRateDesc(hour_rates), MaxOptimalHours)
    IN IF hour_rates # <<>>
       THEN [i \in 1..Len(top) |-> top[i].hour]
       ELSE DefaultHours

\* SchedulingModel._find_optimal_hours
FindOptimalHours(user_data) ==
    LET stats == HourStats(user_data)
        qualifying == SelectSeq(stats, LAMBDA s : s.total >= MinHourSamples)
        hour_rates == [i \in 1..Len(qualifying) |->
                          [hour |-> qualifying[i].hour,
                           rate |-> Rat(qualifying[i].completed,
                                        qualifying[i].total)]]
        top == Take(SortByRateDesc(hour_rates), MaxOptimalHours)
        optimal == IF hour_rates # <<>>
                   THEN [i \in 1..Len(top) |-> top[i].hour]
                   ELSE DefaultHours
    IN SortedInts(optimal)

\* the alternate name of a record key
AltKey(k) ==
    CASE k = "duration_seconds" -> "duration"
      [] k = "tab_switch_count" -> "tabSwitchCount"
      [] k = "method_used" -> "method"
      [] k = "user_id" -> "userId"
      [] OTHER -> k

\* the record with every key of record under its alternate name
ToAlternate(record) ==
    [a \in {AltKey(k) : k \in DOMAIN record} |->
        record[CHOOSE k \in DOMAIN record : AltKey(k) = a]]

\* session records as the builders can be handed them: rows of the sessions
\* table with columns absent or NULL, and records of other callers
FullSession ==
    [user_id |-> "u1", started_at |-> TsMorning, method_used |-> "blitz",
     duration_seconds |-> 3600, tab_switch_count |-> 4, completed |-> TRUE]

CoreRecords ==
    {FullSession, ToAlternate(FullSession),
     [user_id |-> "u1"],
     [user_id |-> "u1", started_at |-> TsEvening, method_used |-> "52_17",
      duration_seconds |-> 900, tab_switch_count |-> 7, completed |-> FALSE],
     [user_id |-> "u1", method_used |-> "custom"],
     [user_id |-> "u1", method_used |-> NoneStr],
     [user_id |-> "u1", duration_seconds |-> NoneNum],
     [user_id |-> "u1", tab_switch_count |-> NoneNum],
     [user_id |-> "u1", duration_seconds |-> 3600, duration |-> 60,
      tabSwitchCount |-> 4, tab_switch_count |-> 9,
      method |-> "blitz", method_used |-> "flowtime"],
     [user_id |-> "u2", started_at |-> TsMorning, completed |-> TRUE],
     [started_at |-> TsMorning, duration_seconds |-> NoneNum]}

TimestampRecords == {[user_id |-> "u1", started_at |-> t] : t \in Timestamps}

\* the record lists handed to a builder: every list of at most n core
\* records, and each timestamp in a list of its own
SessionLists(n) ==
    UNION {[1..k -> CoreRecords] : k \in 0..n}
    \cup {<<r>> : r \in TimestampRecords}

\* datetime.isoformat() of a session that started at hour h
FormatTs(h) ==
    <<"2", "0", "2", "4", "-", "0", "1", "-", "1", "7", "T">>
    \o <<DigitChars[(h \div 10) + 1], DigitChars[(h % 10) + 1]>>
    \o <<":", "0", "0", ":", "0", "0">>

\* the hours of the histories below, in the order their sessions come
HourPool == <<22, 6, 14, 9, 18, 11, 7, 20, 3>>

\* the sessions of one hour in a history: two (too few to count), three of
\* which one was completed, or three completed ones
GroupKinds == {"few", "mixed", "all"}

Group(h, kind) ==
    LET s(done) == [user_id |-> "u1", started_at |-> FormatTs(h),
                    completed |-> done]
    IN CASE kind = "few" -> <<s(TRUE), s(TRUE)>>
         [] kind = "mixed" -> <<s(FALSE), s(TRUE), s(FALSE)>>
         [] kind = "all" -> <<s(TRUE), s(TRUE), s(TRUE)>>

\* a history with sessions in the first MaxHours hours of HourPool
History(kinds) ==
    LET F[i \in 0..MaxHours] ==
            IF i = 0 THEN <<>> ELSE F[i - 1] \o Group(HourPool[i], kinds[i])
    IN F[MaxHours]

Histories == {History(kinds) : kinds \in [1..MaxHours -> GroupKinds]}

\* completion rates and quiz scores on both sides of every threshold
CompletionRates ==
    {Rat(0, 1), Rat(49, 100), Rat(5, 10), Rat(69, 100), Rat(7, 10), Rat(1, 1)}
QuizScores ==
    {Rat(0, 1), Rat(599, 10), Rat(60, 1), Rat(749, 10), Rat(75, 1), Rat(100, 1)}
TabSwitchLists == {<<>>, <<0>>, <<5>>, <<6>>, <<5, 6>>, <<10, 0>>}

\* int(started_at[11:13]) of _generate_recommendations: the slice is taken
\* whatever the length, and a record on which it raises is passed over
SliceHour(started_at) ==
    IF started_at = NoneTs \/ Len(started_at) < 12
    THEN [raised |-> TRUE, v |-> 0]
    ELSE IF Len(started_at) = 12
    THEN [raised |-> ~IsDigit(started_at[12]),
          v |-> IF IsDigit(started_at[12]) THEN DigitVal(started_at[12]) ELSE 0]
    ELSE IntOf2(started_at[12], started_at[13])

RuleCompletion ==
    <<"Try shorter study sessions to improve completion rate",
      "Set specific goals before each study session">>
RuleQuiz ==
    <<"Review material before taking quizzes",
      "Take notes during video lessons">>
RuleTabs ==
    <<"Minimize distractions by closing unnecessary tabs",
      "Use website blockers during study sessions">>
RulePomodoro == <<"Try the Pomodoro technique for better focus">>
RuleDaytime ==
    <<"Consider studying during daytime hours for better retention">>
FallbackPair ==
    <<"Keep up the good work!",
      "Try challenging yourself with advanced courses">>

\* the hours _generate_recommendations collects from a history
SliceHours(user_data) ==
    LET parsed == [i \in 1..Len(user_data) |->
                      SliceHour(Get(user_data[i], "started_at", <<>>))]
        kept == SelectSeq([i \in 1..Len(user_data) |-> i],
                          LAMBDA i : ~parsed[i].raised)
    IN [k \in 1..Len(kept) |-> parsed[kept[k]].v]

\* _generate_recommendations without the final slice
GenerateRecommendationsUncut(completion_rate, quiz_score, tab_switches, methods, user_data) ==
    LET hours == SliceHours(user_data)
        rules ==
            (IF RLess(completion_rate, Rat(6, 10)) THEN RuleCompletion ELSE <<>>)
            \o (IF RLess(quiz_score, Rat(70, 1)) THEN RuleQuiz ELSE <<>>)
            \o (IF RLess(Rat(5, 1), tab_switches) THEN RuleTabs ELSE <<>>)
            \o (IF \A i \in 1..Len(methods) : methods[i] # "pomodoro"
                THEN RulePomodoro ELSE <<>>)
            \o (IF /\ Len(user_data) >= 5
                   /\ hours # <<>>
                   /\ \/ RLess(MeanInts(hours), Rat(8, 1))
                      \/ RLess(Rat(22, 1), MeanInts(hours))
                THEN RuleDaytime ELSE <<>>)
    IN IF rules = <<>> THEN FallbackPair ELSE rules

\* PerformanceModel._generate_recommendations; tab_switches is the mean of
\* the user's tab-switch counts
GenerateRecommendations(completion_rate, quiz_score, tab_switches, methods, user_data) ==
    LET hours == SliceHours(user_data)
        rules ==
            (IF RLess(completion_rate, Rat(6, 10)) THEN RuleCompletion ELSE <<>>)
            \o (IF RLess(quiz_score, Rat(70, 1)) THEN RuleQuiz ELSE <<>>)
            \o (IF RLess(Rat(5, 1), tab_switches) THEN RuleTabs ELSE <<>>)
            \o (IF \A i \in 1..Len(methods) : methods[i] # "pomodoro"
                THEN RulePomodoro ELSE <<>>)
            \o (IF /\ Len(user_data) >= 5
                   /\ hours # <<>>
                   /\ \/ RLess(MeanInts(hours), Rat(8, 1))
                      \/ RLess(Rat(22, 1), MeanInts(hours))
                THEN RuleDaytime ELSE <<>>)
    IN Take(IF rules = <<>> THEN FallbackPair ELSE rules, 5)

\* the histories of the users a performance prediction is made for: n equal
\* sessions, with or without a timestamp
PredictHistories ==
    {[i \in 1..n |-> [started_at |-> FormatTs(h), method_used |-> m,
                      tab_switch_count |-> t, completed |-> TRUE]] :
        n \in {1, 5}, h \in {3, 14, 23}, m \in {"pomodoro", "blitz"},
        t \in {5, 6}}
    \cup {[i \in 1..n |-> [method |-> m, tabSwitchCount |-> t]] :
             n \in {1, 5}, m \in {"pomodoro", "blitz"}, t \in {5, 6}}

\* the clamped outputs of the two regressors, on both sides of the rules'
\* thresholds
PredictedRates == {Rat(0, 1), Rat(59, 100), Rat(6, 10), Rat(1, 1)}
PredictedScores == {Rat(0, 1), Rat(699, 10), Rat(70, 1), Rat(100, 1)}

\* no call of a feature function is in progress
NoCall ==
    [op |-> "none", data |-> <<>>, raised |-> FALSE, rows |-> <<>>,
     labels |-> <<>>, alt_raised |-> FALSE, alt_rows |-> <<>>,
     stats |-> <<>>, hours |-> <<>>,
     c1 |-> Zero, s1 |-> Zero, c2 |-> Zero, s2 |-> Zero, tabs |-> <<>>,
     risk1 |-> "none", risk2 |-> "none",
     method |-> "none", code |-> -1, decoded |-> "none",
     recommendations |-> <<>>]

FeatInit == fx = NoCall

\* X = self.prepare_features(data); y = self.prepare_labels(data) of
\* SchedulingModel.train, and the same for the data under alternate keys
SchedulingBuild(data) ==
    LET f == SchedulingPrepareFeatures(data)
        alt == SchedulingPrepareFeatures([i \in 1..Len(data) |->
                                             ToAlternate(data[i])])
    IN /\ fx' = [NoCall EXCEPT !.op = "scheduling_features", !.data = data,
                               !.raised = f.raised, !.rows = f.rows,
                               !.labels = IF f.raised THEN <<>>
                                          ELSE PrepareLabels(data),
                               !.alt_raised = alt.raised,
                               !.alt_rows = alt.rows]
       /\ UNCHANGED <<recoVars, svcVars>>

\* PerformanceModel.prepare_features(data), and the same for the data under
\* alternate keys
PerformanceBuild(data) ==
    LET f == PerformancePrepareFeatures(data)
        alt == PerformancePrepareFeatures([i \in 1..Len(data) |->
                                              ToAlternate(data[i])])
        users == UserOrder(data)
    IN /\ fx' = [NoCall EXCEPT !.op = "performance_features", !.data = data,
                               !.raised = f.raised, !.rows = f.rows,
                               !.alt_raised = alt.raised,
                               !.alt_rows = alt.rows,
                               !.stats = [i \in 1..Len(users) |->
                                             PerformanceStats(
                                                 SessionsOf(data, users[i]))]]
       /\ UNCHANGED <<recoVars, svcVars>>

\* two calls of _calculate_risk_level with the same tab-switch list, the
\* second with a completion rate and quiz score at least as high
RiskLevel(c1, s1, c2, s2, tabs) ==
    /\ fx' = [NoCall EXCEPT !.op = "risk_level", !.c1 = c1, !.s1 = s1,
                            !.c2 = c2, !.s2 = s2, !.tabs = tabs,
                            !.risk1 = CalculateRiskLevel(c1, s1, tabs),
                            !.risk2 = CalculateRiskLevel(c2, s2, tabs)]
    /\ UNCHANGED <<recoVars, svcVars>>

\* _find_optimal_hours(user_data)
OptimalHours(user_data) ==
    /\ fx' = [NoCall EXCEPT !.op = "optimal_hours", !.data = user_data,
                            !.hours = FindOptimalHours(user_data)]
    /\ UNCHANGED <<recoVars, svcVars>>

\* label_encoder.transform([m]) and inverse_transform of its result
LabelRoundTrip(m) ==
    /\ fx' = [NoCall EXCEPT !.op = "label", !.method = m,
                            !.code = LabelEncode(m),
                            !.decoded = LabelDecode(LabelEncode(m))]
    /\ UNCHANGED <<recoVars, svcVars>>

\* the risk level and the recommendations of PerformanceModel.predict for a
\* non-empty history, the regressors having returned c and s
PerformanceAdvice(c, s, user_data) ==
    LET stats == PerformanceStats(user_data)
    IN /\ fx' = [NoCall EXCEPT
                    !.op = "performance_advice", !.data = user_data,
                    !.c1 = c, !.s1 = s, !.tabs = stats.tab_switches,
                    !.risk1 = CalculateRiskLevel(c, s, stats.tab_switches),
                    !.recommendations =
                        GenerateRecommendations(c, s,
                                                MeanInts(stats.tab_switches),
                                                stats.methods, user_data)]
       /\ UNCHANGED <<recoVars, svcVars>>

\* the call returns
FeatReturn ==
    /\ fx # NoCall
    /\ fx' = NoCall
    /\ UNCHANGED <<recoVars, svcVars>>

FeatIdle == fx = NoCall

FeatNext ==
    \/ FeatIdle /\ \E data \in SessionLists(MaxData) : SchedulingBuild(data)
    \/ FeatIdle /\ \E data \in SessionLists(MaxData) : PerformanceBuild(data)
    \/ FeatIdle /\ \E c1 \in CompletionRates, c2 \in CompletionRates,
                      s1 \in QuizScores, s2 \in QuizScores,
                      tabs \in TabSwitchLists :
                       /\ RLeq(c1, c2) /\ RLeq(s1, s2)
                       /\ RiskLevel(c1, s1, c2, s2, tabs)
    \/ FeatIdle /\ \E user_data \in Histories \cup SessionLists(2) :
                       OptimalHours(user_data)
    \/ FeatIdle /\ \E i \in 1..Len(METHODS) : LabelRoundTrip(METHODS[i])
    \/ FeatIdle /\ \E c \in PredictedRates, s \in PredictedScores,
                      user_data \in PredictHistories :
                       PerformanceAdvice(c, s, user_data)
    \/ FeatReturn

-----------------------------------------------------------------------------
(* Specifications                                                          *)

Init == SvcInit /\ RecoInit /\ FeatInit

\* the service: the request handlers of main.py and its background tasks
Spec == Init /\ [][Next]_vars

\* the service together with callers that use TrainingService and the model
\* objects of its registry directly
SpecTrainer == Init /\ [][NextTrainer]_vars

\* the scheduling artifact and its three files
SpecSave == Init /\ [][NextSave]_vars

\* the recommendation model alone: train and scoring calls
SpecReco == Init /\ [][RecoNext]_vars

\* the feature builders and the other pure functions of the two models; they
\* read neither the datastore nor an artifact
FeatStart == Init /\ configured = TRUE

SpecFeat == FeatStart /\ [][FeatNext]_vars

-----------------------------------------------------------------------------
\* C1: for the lookup tables left by any sequence of recommendation train
\* calls and any user profile and candidate course, the computed score is at
\* least 0 and at most 1.
C1_ScoreInUnitInterval ==
    score # NoScore => RLeq(Zero, score) /\ RLeq(score, One)

\* a score with a collaborative contribution computed from similar users
C1_Witness ==
    /\ score # NoScore
    /\ RLess(Zero, score)
    /\ \E u \in DOMAIN user_profiles, c \in Courses :
           SimilarScores(u, c, user_profiles) # <<>>

\* C2: a train request whose fetch returned n < 50 records answers with
\* success=false and training_samples = n, does not call the trainer, leaves
\* every artifact in memory and on disk as it was and schedules no metrics
\* save; with n >= 50 records it calls TrainingService.train.
C2_InsufficientDataShortCircuits ==
    [][(runs' = runs + 1 /\ last'.op = "train" /\ last'.fetched >= 0)
       => IF last'.fetched < MinSamples
          THEN /\ last'.status = 200
               /\ ~last'.success
               /\ last'.samples = last'.fetched
               /\ ~last'.trainer
               /\ models' = models
               /\ disk' = disk
               /\ background' = background
          ELSE last'.trainer]_vars

\* a train request answered with 49 samples and success=false
C2_Witness ==
    /\ last.op = "train"
    /\ last.fetched = MinSamples - 1
    /\ last.status = 200
    /\ ~last.success
    /\ last.samples = MinSamples - 1

\* C3: TrainingService.train (called directly or from train_all) with fewer
\* than 50 records returns an insufficient-data result carrying the sample
\* count and never fits an estimator.
C3_TrainerRejectsSmallData ==
    /\ (last.op = "trainer_train" /\ last.mt \in ModelTypes
        /\ last.fetched < MinSamples)
       => (~last.raised /\ ~last.success /\ last.samples = last.fetched
           /\ ~last.fitted)
    /\ last.op = "trainer_train_all"
       => \A mt \in DOMAIN last.results :
              last.results[mt].samples < MinSamples
              => (~last.results[mt].success /\ ~last.results[mt].fitted)

\* C4: SchedulingModel.predict on an untrained artifact for which no
\* persisted artifact can be loaded returns the hardcoded default and raises
\* nothing.
C4_SchedulingUntrainedDefault ==
    (/\ last.op \in {"predict_schedule", "scheduling_predict"}
     /\ last.pred.source # "handler_default"
     /\ ~last.inst.trained
     /\ ~last.loadable)
    => (/\ ~last.raised
        /\ last.pred.source = "model_default"
        /\ last.pred.body = SchedulingDefault)

\* the case C5 is about: a performance prediction with an empty history, or
\* with an artifact that is untrained and cannot be loaded
C5_Case ==
    /\ last.op \in {"predict_performance", "performance_predict"}
    /\ \/ last.hist = 0
       \/ ~last.inst.trained /\ ~last.loadable

C5_DefaultValues ==
    /\ ~last.raised
    /\ last.pred.source \in {"handler_default", "model_default"}
    /\ last.pred.body.predicted_completion_rate = Half
    /\ last.pred.body.predicted_quiz_score = Rat(65, 1)
    /\ last.pred.body.risk_level = "medium"

C6_UnknownTypeIsClientError ==
    (last.op \in {"train", "model_metrics"} /\ last.mt \notin ModelTypes)
    => (last.status = 400 /\ last.fetched = -1)

\* C7: every prediction request ends with a structured prediction; a failure
\* while loading or predicting is never surfaced as an error.
C7_PredictionsFailSoft ==
    last.op \in {"predict_schedule", "predict_courses", "predict_performance"}
    => (last.status = 200 /\ last.pred.source # "none")

\* C8: when the data-access collaborator is unconfigured or raises during the
\* fetch, the train request answers with a server error, never with a
\* successful result, and fits no artifact.
C8_UpstreamFailureIsServerError ==
    (last.op = "train" /\ last.upstream \in {"unconfigured", "raised"})
    => (last.status = 500 /\ ~last.success /\ ~last.fitted)

\* C9: a train-all call returns one entry per model type; an entry reports a
\* failure exactly when that type's own data fails, and every type whose own
\* data trains is fitted by this call whatever happened to the types before.
C9_TrainAllIsolatesFailures ==
    last.op \in {"train_all", "trainer_train_all"}
    => /\ DOMAIN last.results = ModelTypes
       /\ \A mt \in ModelTypes :
              LET e == last.results[mt]
              IN /\ e.success <=> e.own = "trained"
                 /\ (e.success /\ e.fitted)
                    => (models[mt].est = last.run /\ models[mt].trained)

\* a train-all call in which the first type failed and a later one was fitted
C9_Witness ==
    /\ last.op \in {"train_all", "trainer_train_all"}
    /\ DOMAIN last.results = ModelTypes
    /\ last.results["scheduling"].error
    /\ last.results["performance"].success
    /\ last.results["performance"].fitted
    /\ models["performance"].est = last.run

\* C10: the metrics of a successful training run are never lost: when the
\* scheduled save has run, a metrics query for that model type shows them.
C10_MetricsNeverLost ==
    [][\A task \in background :
           task \notin background'
           => (configured /\ metrics_table'[task.mt] = task.run)]_vars

-----------------------------------------------------------------------------
\* C11: building the scheduling features and labels of a record list never
\* raises, whatever the records' method and numeric fields are, and gives
\* exactly one feature row and one label per record.
C11_SchedulingBuildTotal ==
    fx.op = "scheduling_features" =>
        /\ ~fx.raised
        /\ Len(fx.rows) = Len(fx.data)
        /\ Len(fx.labels) = Len(fx.data)

-----------------------------------------------------------------------------
\* the records C12 speaks of: no timestamp field, a timestamp string of fewer
\* than 14 characters, or one of at least 14 with digits at positions 11-12
C12_NoTimestamp(record) == "started_at" \notin DOMAIN record

C12_Short(record) ==
    /\ "started_at" \in DOMAIN record
    /\ record.started_at # NoneTs
    /\ Len(record.started_at) < 14

C12_HasHourDigits(record) ==
    /\ "started_at" \in DOMAIN record
    /\ record.started_at # NoneTs
    /\ Len(record.started_at) >= 14
    /\ IsDigit(record.started_at[12])
    /\ IsDigit(record.started_at[13])

C12_Covered(record) ==
    C12_NoTimestamp(record) \/ C12_Short(record) \/ C12_HasHourDigits(record)

C12_Hour(record) ==
    IF C12_HasHourDigits(record)
    THEN 10 * DigitVal(record.started_at[12]) + DigitVal(record.started_at[13])
    ELSE 12

\* C12: in the scheduling and in the performance feature builder a record
\* without timestamp field gets hour 12 (and weekday 0 in the scheduling
\* builder), a timestamp string shorter than 14 characters gets hour 12, and
\* one of 14 or more characters with digits at positions 11-12 gets that hour.
C12_HourAndWeekdayDefaults ==
    /\ fx.op = "scheduling_features" /\ ~fx.raised =>
          \A i \in 1..Len(fx.data) :
              /\ C12_Covered(fx.data[i]) =>
                    fx.rows[i][1] = Norm(Rat(C12_Hour(fx.data[i]), 24))
              /\ C12_NoTimestamp(fx.data[i]) => fx.rows[i][2] = Zero
    /\ fx.op = "performance_features" =>
          \A u \in 1..Len(fx.stats) :
              \A k \in 1..Len(fx.stats[u].sessions) :
                  C12_Covered(fx.stats[u].sessions[k]) =>
                      fx.stats[u].hours[k] = C12_Hour(fx.stats[u].sessions[k])

\* the scheduling builder has built the rows of a record without timestamp
\* and of a record whose timestamp carries an hour other than 12
C12_Witness ==
    /\ fx.op = "scheduling_features" /\ ~fx.raised
    /\ \E i, j \in 1..Len(fx.data) :
          /\ C12_NoTimestamp(fx.data[i])
          /\ fx.rows[i][1] = Half
          /\ C12_HasHourDigits(fx.data[j])
          /\ fx.rows[j][1] # Half

-----------------------------------------------------------------------------
\* a record that carries its fields under the snake_case keys only, with
\* values of the column's type
C13_SnakeCase(record) ==
    /\ DOMAIN record \cap {"duration", "tabSwitchCount", "method", "userId"} = {}
    /\ Get(record, "method_used", DefaultMethod) \in
          {METHODS[i] : i \in 1..Len(METHODS)}
    /\ Get(record, "duration_seconds", DefaultDuration) # NoneNum
    /\ Get(record, "tab_switch_count", DefaultTabSwitches) # NoneNum

\* C13: every feature builder accepts duration, tab-switch count and method
\* under either key name: the records under the alternate keys give the same
\* feature values as the same records under the snake_case keys.
C13_AlternateKeysSameFeatures ==
    /\ fx.op \in {"scheduling_features", "performance_features"}
    /\ \A i \in 1..Len(fx.data) : C13_SnakeCase(fx.data[i])
    => /\ fx.alt_raised = fx.raised
       /\ fx.alt_rows = fx.rows

-----------------------------------------------------------------------------
\* the order low < medium < high of the risk tiers
C14_Tier(level) ==
    CASE level = "low" -> 0 [] level = "medium" -> 1 [] level = "high" -> 2

\* C14: for one list of tab-switch counts, a completion rate c1 <= c2 and a
\* quiz score s1 <= s2 give (c1, s1) a risk tier that is never lower than the
\* tier of (c2, s2).
C14_RiskMonotonic ==
    fx.op = "risk_level" /\ RLeq(fx.c1, fx.c2) /\ RLeq(fx.s1, fx.s2) =>
        C14_Tier(fx.risk1) >= C14_Tier(fx.risk2)

\* the two calls gave different tiers although only one of the two inputs
\* differs
C14_Witness ==
    /\ fx.op = "risk_level"
    /\ fx.c1 = fx.c2 /\ RLess(fx.s1, fx.s2)
    /\ fx.risk1 = "high" /\ fx.risk2 = "medium"
    /\ fx.tabs # <<>>

-----------------------------------------------------------------------------
C15_Ascending(hours) ==
    \A i \in 1..Len(hours) : \A j \in 1..Len(hours) :
        i < j => hours[i] <= hours[j]

\* C15: for every session history the optimal_hours of a scheduling
\* prediction, computed from the history or the default list, has at most 6
\* entries and is sorted in ascending order.
C15_OptimalHoursBoundedSorted ==
    /\ fx.op = "optimal_hours" =>
          Len(fx.hours) <= 6 /\ C15_Ascending(fx.hours)
    /\ Len(SchedulingDefault.optimal_hours) <= 6
    /\ C15_Ascending(SchedulingDefault.optimal_hours)

\* a history in which seven hours have three sessions or more: one hour is
\* is cut off and six come back
C15_Witness ==
    /\ fx.op = "optimal_hours"
    /\ Cardinality({r.started_at : r \in {fx.data[i] : i \in 1..Len(fx.data)}}) = 7
    /\ Len(fx.data) = 21
    /\ Len(fx.hours) = 6
    /\ fx.hours[1] < fx.hours[6]

-----------------------------------------------------------------------------
-----------------------------------------------------------------------------
\* C20: for each of the 4 canonical methods, decoding the encoded label gives
\* the method back, and no two methods have the same label.
C20_LabelRoundTrip ==
    /\ fx.op = "label" => fx.decoded = fx.method
    /\ \A i \in 1..Len(METHODS) : \A j \in 1..Len(METHODS) :
           LabelEncode(METHODS[i]) = LabelEncode(METHODS[j]) => i = j
    /\ \A i \in 1..Len(METHODS) : LabelEncode(METHODS[i]) \in 0..3

\* a method whose label differs from its position in METHODS has made the
\* round trip
C20_Witness ==
    /\ fx.op = "label"
    /\ fx.method = "52_17"
    /\ fx.code = 0
    /\ fx.decoded = "52_17"

-----------------------------------------------------------------------------
\* the courses the user of the recommend call has completed or is enrolled in
C17_Taken ==
    Get(reco_call.user_data, "completed_courses", {})
    \cup Get(reco_call.user_data, "enrolled_courses", {})

\* C17: no course whose id is in the user's completed-courses set or
\* enrolled-courses set appears in the list recommend returns, for any
\* candidate list, any limit and any trained state.
C17_NoTakenCourseRecommended ==
    reco_call.op = "recommend" =>
        \A i \in 1..Len(reco_call.result) :
            reco_call.result[i].course_id \notin C17_Taken

\* a trained model was asked about a completed, an enrolled and a third
\* course and returned the third
C17_Witness ==
    /\ reco_call.op = "recommend"
    /\ reco_trained /\ DOMAIN user_profiles # {}
    /\ Get(reco_call.user_data, "completed_courses", {}) = {"c1"}
    /\ Get(reco_call.user_data, "enrolled_courses", {}) = {"c2"}
    /\ {"c1", "c2"} \subseteq
          {reco_call.courses[i].id : i \in 1..Len(reco_call.courses)}
    /\ Len(reco_call.result) = 1

-----------------------------------------------------------------------------
\* the candidates of the recommend call that are scored, in input order, and
\* the score of a candidate on the current lookup tables
C18_Scored ==
    SelectSeq(reco_call.courses, LAMBDA course : course.id \notin C17_Taken)

C18_ScoreOf(course) ==
    CalculateCourseScore(reco_call.user_data, course,
                         user_profiles, course_profiles)

\* the position of the candidate with id course_id in the candidate list
C18_Position(course_id) ==
    CHOOSE i \in 1..Len(reco_call.courses) : reco_call.courses[i].id = course_id

\* C18: recommend returns scored candidates with their scores, in
\* non-increasing score order, candidates of equal score in their input
\* order, truncated to limit: at most limit entries (none for a limit below
\* 1), and no omitted candidate has a strictly higher score than a returned
\* one.
C18_RankedAndTruncated ==
    reco_call.op = "recommend" =>
        LET result == reco_call.result
            returned == {result[i].course_id : i \in 1..Len(result)}
        IN /\ \A i \in 1..Len(result) :
                  \E k \in 1..Len(C18_Scored) :
                      /\ C18_Scored[k].id = result[i].course_id
                      /\ C18_ScoreOf(C18_Scored[k]) = result[i].score
           /\ \A i \in 1..Len(result) : \A j \in 1..Len(result) :
                  i < j =>
                      /\ RLeq(result[j].score, result[i].score)
                      /\ result[i].score = result[j].score =>
                             C18_Position(result[i].course_id)
                                 < C18_Position(result[j].course_id)
           /\ Len(result) <= IF reco_call.limit > 0 THEN reco_call.limit ELSE 0
           /\ \A k \in 1..Len(C18_Scored) :
                  C18_Scored[k].id \notin returned =>
                      \A i \in 1..Len(result) :
                          RLeq(C18_ScoreOf(C18_Scored[k]), result[i].score)

-----------------------------------------------------------------------------
\* the other users that share at least one course with user u and have
\* interacted with course c
C19_Contributors(u, c) ==
    {o \in DOMAIN user_profiles \ {u} :
        /\ DOMAIN user_profiles[u] \cap DOMAIN user_profiles[o] # {}
        /\ c \in DOMAIN user_profiles[o]}

\* o's interaction score for c times the Jaccard similarity of the course
\* sets of u and o
C19_Weighted(u, o, c) ==
    RMul(user_profiles[o][c],
         Rat(Cardinality(DOMAIN user_profiles[u] \cap DOMAIN user_profiles[o]),
             Cardinality(DOMAIN user_profiles[u] \cup DOMAIN user_profiles[o])))

RECURSIVE C19_Total(_, _, _)
C19_Total(u, S, c) ==
    IF S = {} THEN Zero
    ELSE LET o == CHOOSE x \in S : TRUE
         IN RAdd(C19_Weighted(u, o, c), C19_Total(u, S \ {o}, c))

C19_Same(a, b) == a.n * b.d = b.n * a.d

\* C19: the collaborative signal for (user, candidate course) is the mean,
\* over the other users who share a course with the user and have interacted
\* with the candidate, of their score for the candidate times the Jaccard
\* similarity of the two course sets, and then strictly positive; it is 0.5
\* when the user is unseen in training or there is no such user.
C19_CollaborativeSignal ==
    reco_call.op = "collaborative" =>
        LET u == reco_call.user_id
            c == reco_call.course_id
        IN IF u \notin DOMAIN user_profiles \/ C19_Contributors(u, c) = {}
           THEN reco_call.value = Rat(1, 2)
           ELSE /\ C19_Same(reco_call.value,
                            RMul(C19_Total(u, C19_Contributors(u, c), c),
                                 Rat(1, Cardinality(C19_Contributors(u, c)))))
                /\ RLess(Zero, reco_call.value)

\* the signal is the mean over two other users whose course sets equal the
\* user's in part only
C19_Witness ==
    /\ reco_call.op = "collaborative"
    /\ reco_call.user_id \in DOMAIN user_profiles
    /\ Cardinality(C19_Contributors(reco_call.user_id, reco_call.course_id)) = 2
    /\ RLess(reco_call.value, Rat(1, 2))

-----------------------------------------------------------------------------
\* the points C21 accumulates for a completion rate c, a quiz score s and a
\* list of tab-switch counts; 10 * c, s and the sum of the counts are compared
\* as integers' ratios
C21_Points(c, s, tabs) ==
    (IF 10 * c.n < 5 * c.d THEN 2 ELSE IF 10 * c.n < 7 * c.d THEN 1 ELSE 0)
    + (IF s.n < 60 * s.d THEN 2 ELSE IF s.n < 75 * s.d THEN 1 ELSE 0)
    + (IF Len(tabs) > 0 /\ SumInts(tabs) > 5 * Len(tabs) THEN 1 ELSE 0)

C21_TierOf(points) ==
    IF points \in {0, 1} THEN "low"
    ELSE IF points \in {2, 3} THEN "medium" ELSE "high"

\* C21: the risk level is the tier of the accumulated score: 2 points for a
\* completion rate below 0.5, else 1 below 0.7; 2 points for a quiz score
\* below 60, else 1 below 75; 1 point for a mean tab-switch count above 5; 4
\* or more is 'high', 2 or 3 'medium', 0 or 1 'low'.
C21_RiskLevelIsTierOfScore ==
    fx.op = "risk_level" =>
        /\ fx.risk1 = C21_TierOf(C21_Points(fx.c1, fx.s1, fx.tabs))
        /\ fx.risk2 = C21_TierOf(C21_Points(fx.c2, fx.s2, fx.tabs))

\* a call whose score is exactly 3 (medium) next to one whose score is
\* exactly 4 (high)
C21_Witness ==
    /\ fx.op = "risk_level"
    /\ C21_Points(fx.c1, fx.s1, fx.tabs) = 4 /\ fx.risk1 = "high"
    /\ C21_Points(fx.c2, fx.s2, fx.tabs) = 3 /\ fx.risk2 = "medium"

-----------------------------------------------------------------------------
\* per hour of a history: the number of its sessions that fall into the hour
\* and the number of those that were completed; q is the set of the hours
\* with 3 or more sessions
C22_Stats(data) ==
    LET parsed == [i \in 1..Len(data) |->
                      HourTry(Get(data[i], "started_at", <<>>))]
        counted == {i \in 1..Len(data) : ~parsed[i].raised}
        seen == {parsed[i].v : i \in counted}
        total == [h \in seen |->
                     Cardinality({i \in counted : parsed[i].v = h})]
        done == [h \in seen |->
                    Cardinality({i \in counted :
                                    parsed[i].v = h /\ Completed(data[i])})]
    IN [total |-> total, done |-> done, q |-> {h \in seen : total[h] >= 3}]

\* hour a has a strictly higher completion rate than hour b
C22_HigherRate(st, a, b) ==
    st.done[a] * st.total[b] > st.done[b] * st.total[a]

\* C22: when some hour has 3 or more sessions, every hour of optimal_hours
\* has 3 or more sessions, the up to 6 best by completion rate are returned,
\* and no qualifying hour left out has a strictly higher rate than a returned
\* one; when no hour has 3 or more sessions the result is
\* [9, 10, 11, 14, 15, 16].
C22_BestHoursByRate ==
    fx.op = "optimal_hours" =>
        LET st == C22_Stats(fx.data)
            returned == {fx.hours[i] : i \in 1..Len(fx.hours)}
        IN IF st.q = {}
           THEN fx.hours = <<9, 10, 11, 14, 15, 16>>
           ELSE /\ returned \subseteq st.q
                /\ Len(fx.hours) = IF Cardinality(st.q) < 6
                                   THEN Cardinality(st.q) ELSE 6
                /\ \A q \in st.q \ returned :
                       \A r \in returned : ~C22_HigherRate(st, q, r)

\* seven hours qualify and the one left out is the first of the history,
\* with a lower rate than a returned hour
C22_Witness ==
    /\ fx.op = "optimal_hours"
    /\ LET st == C22_Stats(fx.data)
           returned == {fx.hours[i] : i \in 1..Len(fx.hours)}
       IN /\ Cardinality(st.q) = 7
          /\ Len(fx.hours) = 6
          /\ 22 \in st.q \ returned
          /\ \E r \in returned : C22_HigherRate(st, r, 22)

-----------------------------------------------------------------------------
\* the records of a list that carry both ids and belong to the pair (u, c)
C23_RecordsOf(data, u, c) ==
    {i \in 1..Len(data) :
        /\ data[i].user_id = u /\ data[i].course_id = c
        /\ u # NoneId /\ c # NoneId}

-----------------------------------------------------------------------------
C25_RuleTriggers ==
    LET total == SumInts([i \in 1..Len(fx.data) |->
                             LET p == SliceHour(Get(fx.data[i], "started_at",
                                                    <<>>))
                             IN IF p.raised THEN 0 ELSE p.v])
        count == Cardinality({i \in 1..Len(fx.data) :
                                 ~SliceHour(Get(fx.data[i], "started_at",
                                                <<>>)).raised})
    IN \/ fx.c1.n * 10 < 6 * fx.c1.d
       \/ fx.s1.n < 70 * fx.s1.d
       \/ SumInts(fx.tabs) > 5 * Len(fx.tabs)
       \/ \A i \in 1..Len(fx.data) :
              Get(fx.data[i], "method",
                  Get(fx.data[i], "method_used", "pomodoro")) # "pomodoro"
       \/ /\ Len(fx.data) >= 5
          /\ count > 0
          /\ (total < 8 * count \/ total > 22 * count)

C25_OneToFiveFallbackIffNoRule ==
    fx.op = "performance_advice" =>
        /\ Len(fx.recommendations) \in 1..5
        /\ (fx.recommendations = FallbackPair) <=> ~C25_RuleTriggers

\* the three two-line rules all trigger and the list is cut to five
C25_Witness ==
    /\ fx.op = "performance_advice"
    /\ fx.c1.n * 10 < 6 * fx.c1.d
    /\ fx.s1.n < 70 * fx.s1.d
    /\ SumInts(fx.tabs) > 5 * Len(fx.tabs)
    /\ Len(fx.recommendations) = 5

\* ---------------------------------------------------------------------
\* C26: a predict call leaves the artifact it is called on as it was: the
\* estimator, the scaler and the trained flag of the instance after the
\* call are those of the instance before it, whatever the call returns.
C26_PredictLeavesArtifact ==
    /\ last.op = "scheduling_predict" => models["scheduling"] = last.inst
    /\ last.op = "performance_predict" => models["performance"] = last.inst

\* ---------------------------------------------------------------------
\* C27: after any sequence of train, save and load operations a
\* performance artifact that is marked trained has its regressors and its
\* scaler fitted, and a prediction on it does not fail on a missing
\* estimator.
C27_TrainedImpliesFitted ==
    /\ models["performance"].trained =>
           models["performance"].est # 0 /\ models["performance"].scaler # 0
    /\ last.op = "performance_predict" /\ models["performance"].trained =>
           ~last.raised

\* ---------------------------------------------------------------------
\* C28: a train request answers success=true, "Model trained successfully"
\* only if an estimator (for recommendation, the lookup tables) was fitted
\* from the fetched data during the request and the artifact of that model
\* type is marked trained afterwards.
C28_SuccessOnlyIfFitted ==
    last.op = "train" /\ last.status = 200 /\ last.success =>
        /\ last.fitted
        /\ models[last.mt].trained

\* ---------------------------------------------------------------------
\* C29: once a train request for a model type has answered success=true,
\* the next prediction request for that type that reaches the model is
\* computed from the artifact that training run fitted, also when saving
\* that artifact failed.  The registry artifact of a type carries the
\* number of the run that fitted it; the prediction must carry the same
\* number.  Reads of an existing file are taken to succeed.
C29_PredictionFromLatestTraining ==
    LET handler == [scheduling |-> "predict_schedule",
                    recommendation |-> "predict_courses",
                    performance |-> "predict_performance"]
    IN \A mt \in ModelTypes :
           /\ last.op = handler[mt]
           /\ last.pred.source # "handler_default"
           /\ disk[mt].present => last.inst.est = disk[mt].est
           /\ models[mt].trained
           /\ models[mt].est # 0
           => /\ last.pred.source \in {"estimator", "tables"}
              /\ last.pred.run = models[mt].est

\* ---------------------------------------------------------------------
\* C30: whatever the order of training and prediction requests for the
\* scheduling model, an artifact loaded for prediction has its estimator,
\* its scaler and its label encoder from one and the same training run, and
\* it is not marked trained while one of them is missing.
C30_LoadedArtifactFromOneRun ==
    last.op \in {"predict_schedule", "scheduling_load"} /\ last.inst.trained =>
        /\ last.inst.est # 0
        /\ last.inst.scaler # 0
        /\ last.inst.scaler = last.inst.est
        /\ disk["scheduling"].encoder = last.inst.est

=============================================================================
